---------------------------- MODULE Spec2Model ----------------------------
(***************************************************************************)
(* Baize incremental semantic indexing engine.                             *)
(*                                                                         *)
(*   Spec       IndexScheduler (application/index-scheduler.ts) driving    *)
(*              MarkdownChunker -> embedder -> vector store, with the      *)
(*              change notifications of SyncService as its environment.    *)
(*   SpecStore  the two vector-store backends (LanceAdapter, VoyAdapter)   *)
(*              under a sequential caller.                                 *)
(*                                                                         *)
(* Text is a sequence of one-character strings.  A stored record is        *)
(* [id, path, idx, ver]: id, file_path, chunk_index and the content        *)
(* version that text, vector and metadata were computed from; the id       *)
(* path::index is the pair <<path, index>>.                                *)
(***************************************************************************)
EXTENDS Integers, Sequences, FiniteSets, TLC

VARIABLES
    backend,     \* which IVectorStore the plugin runs on: "lance" | "voy"
    recs,        \* LanceDB table rows / VoyAdapter.recordsMap values
    voyIndex,    \* ids held by the Voy WASM index (VoyAdapter.voy)
    modelReady,  \* IndexScheduler.modelReady
    queue,       \* IndexScheduler.queue
    isBusy,      \* IndexScheduler.isBusy
    drains,      \* activations of processQueue: position and locals of each
    ops,         \* store calls issued by the deleted / renamed handlers, in flight
    exists,      \* vault: path -> whether getAbstractFileByPath gives a TFile
    emitted,     \* signals emitted on the EventBus by the latest step
    pend,        \* path -> enqueue calls since its last pass started:
                 \* "none" | "once" | "many"
    call,        \* SpecStore: the caller's latest store call and how far it is
    pool,        \* SpecPool: EmbeddingWorkerPool, its workers and its promises
    mgr,         \* SpecManager: ModelManager and its prepareModel call
    chunkIn,     \* SpecChunk: the text given to MarkdownChunker.chunk
    chunkOut,    \* SpecChunk: what the call returned
    plugin,      \* SpecStart: BaizePlugin, its adapters and how far onload is
    sync         \* SpecSync: SyncService, its timers, the clock and what was emitted

schedVars == <<modelReady, queue, isBusy, drains, ops, exists, emitted, pend>>
storeVars == <<backend, recs, voyIndex>>
callVars  == <<call>>
embedVars == <<pool, mgr>>
chunkVars == <<chunkIn, chunkOut>>
startVars == <<plugin>>
syncVars  == <<sync>>
vars == <<storeVars, schedVars, callVars, embedVars, chunkVars, startVars,
         syncVars>>

\* ------------------------------------------------------------------ bounds
MaxDrains    == 2   \* activation slots for processQueue
MaxInFlight  == 1   \* handler-issued store calls in flight at once
MaxProcessed == 2   \* documents one drain may be given in total
MaxVersion   == 2   \* SpecStore: content versions of a path
MaxChunks    == 2   \* SpecStore: passages per upsert

Paths == {"a.md", "b.md"}

Range(s) == {s[i] : i \in DOMAIN s}
Min(a, b) == IF a < b THEN a ELSE b
Max(a, b) == IF a > b THEN a ELSE b


\* --------------------------------------------------------------- documents
\* Contents vault.read may return: empty, whitespace only, frontmatter
\* only, one section, two headed sections.
Docs == << <<>>,
           <<" ", "\n">>,
           <<"-", "-", "-", "\n", "k", "\n", "-", "-", "-", "\n", " ">>,
           <<"a", "b">>,
           <<"#", " ", "A", "\n", "x", "\n", "#", " ", "B", "\n", "y">> >>
DocIds == DOMAIN Docs

\* ----------------------------------------------------------- text helpers
\* Offsets are JavaScript's: 0-based, end-exclusive.
SetMin(S) == CHOOSE x \in S : \A y \in S : x <= y
SetMax(S) == CHOOSE x \in S : \A y \in S : x >= y
At(t, i) == t[i + 1]
\* String.prototype.slice, negative indices counted from the end
Slice(t, a, b) ==
    LET n == Len(t)
        from == IF a < 0 THEN Max(n + a, 0) ELSE Min(a, n)
        to == IF b < 0 THEN Max(n + b, 0) ELSE Min(b, n)
    IN IF from >= to THEN <<>> ELSE SubSeq(t, from + 1, to)
SliceFrom(t, a) == Slice(t, a, Len(t))
\* Characters the module cannot write as a string literal
BACKTICK == "BT"
IDEOGRAPHIC_STOP == "CJK_STOP"
IsLineTerminator(c) == c \in {"\n", "\r"}
IsSpace(c) == c \in {" ", "\t", "\n", "\r", "\f"}
RECURSIVE TrimStart(_)
TrimStart(t) == IF t # <<>> /\ IsSpace(Head(t)) THEN TrimStart(Tail(t)) ELSE t
RECURSIVE TrimEnd(_)
TrimEnd(t) ==
    IF t # <<>> /\ IsSpace(t[Len(t)]) THEN TrimEnd(SubSeq(t, 1, Len(t) - 1)) ELSE t
Trim(t) == TrimEnd(TrimStart(t))
\* (t.match(/\n/g) || []).length, t.split("\n").length - 1
CountNewlines(t) == Cardinality({i \in DOMAIN t : t[i] = "\n"})
MatchesAt(t, i, pat) ==
    /\ i >= 0
    /\ i + Len(pat) <= Len(t)
    /\ \A k \in 1..Len(pat) : t[i + k] = pat[k]
\* t.indexOf(pat, from), and what a regex search for a literal finds
IndexOf(t, pat, from) ==
    LET S == {i \in from..(Len(t) - Len(pat)) : MatchesAt(t, i, pat)}
    IN IF S = {} THEN -1 ELSE SetMin(S)
\* t.lastIndexOf(c)
LastIndexOf(t, c) ==
    LET S == {i \in 0..(Len(t) - 1) : At(t, i) = c}
    IN IF S = {} THEN -1 ELSE SetMax(S)

\* --------------------------------------------------------- MarkdownChunker
DEFAULT_CHUNKING_OPTIONS ==
    [chunkSize |-> 500, overlapNum |-> 15, overlapDen |-> 100,
     minChunkSize |-> 50, keepFrontmatter |-> FALSE]
LookbackRange == 100
LookbackMin == 50

Dashes == <<"-", "-", "-">>
Ticks == <<BACKTICK, BACKTICK, BACKTICK>>
\* length of the match of \r?\n at i, 0 when there is none
EolLen(t, i) ==
    IF MatchesAt(t, i, <<"\r", "\n">>) THEN 2
    ELSE IF MatchesAt(t, i, <<"\n">>) THEN 1 ELSE 0
\* length of the match of \r?\n---\r?\n at i, 0 when there is none
CloseLen(t, i) ==
    LET e1 == EolLen(t, i) IN
    IF e1 = 0 \/ ~MatchesAt(t, i + e1, Dashes) THEN 0
    ELSE LET e2 == EolLen(t, i + e1 + 3) IN IF e2 = 0 THEN 0 ELSE e1 + 3 + e2
\* length of the match of /^---\r?\n([\s\S]*?)\r?\n---\r?\n/, 0 when none
FrontmatterLength(t) ==
    IF ~MatchesAt(t, 0, Dashes) \/ EolLen(t, 3) = 0 THEN 0
    ELSE LET s0 == 3 + EolLen(t, 3)
             K == {k \in s0..Len(t) : CloseLen(t, k) > 0}
         IN IF K = {} THEN 0 ELSE SetMin(K) + CloseLen(t, SetMin(K))

stripFrontmatter(opt, text) ==
    LET n == FrontmatterLength(text) IN
    IF n > 0 /\ ~opt.keepFrontmatter
    THEN [content |-> SliceFrom(text, n), offset |-> n,
          lineOffset |-> CountNewlines(Slice(text, 0, n))]
    ELSE [content |-> text, offset |-> 0, lineOffset |-> 0]

\* the code-fence regex (three backticks, lazily anything, three backticks),
\* global, from regex position pos
RECURSIVE findCodeBlocksFrom(_, _)
findCodeBlocksFrom(t, pos) ==
    LET i == IndexOf(t, Ticks, pos) IN
    IF i = -1 THEN <<>>
    ELSE LET j == IndexOf(t, Ticks, i + 3) IN
         IF j = -1 THEN <<>>
         ELSE << <<i, j + 3>> >> \o findCodeBlocksFrom(t, j + 3)
findCodeBlocks(text) == findCodeBlocksFrom(text, 0)

RECURSIVE HashRun(_, _)
HashRun(t, i) == IF i < Len(t) /\ At(t, i) = "#" THEN 1 + HashRun(t, i + 1) ELSE 0
RECURSIVE WsRun(_, _)
WsRun(t, i) == IF i < Len(t) /\ IsSpace(At(t, i)) THEN 1 + WsRun(t, i + 1) ELSE 0
LineEnd(t, i) ==
    SetMin({k \in i..Len(t) : k = Len(t) \/ IsLineTerminator(At(t, k))})
\* A match of /^(#{1,6})\s+(.+)$/m starting at i.  \s+ is greedy and gives
\* back characters until (.+) finds one that is no line terminator.
HeadingAt(t, i) ==
    LET h == HashRun(t, i)
        w == WsRun(t, i + h)
        S == {s \in 1..w : i + h + s < Len(t) /\ ~IsLineTerminator(At(t, i + h + s))}
    IN IF /\ (i = 0 \/ IsLineTerminator(At(t, i - 1)))
          /\ h >= 1 /\ h <= 6 /\ S # {}
       THEN [ok |-> TRUE, level |-> h,
             title |-> Slice(t, i + h + SetMax(S), LineEnd(t, i + h + SetMax(S))),
             lastIndex |-> LineEnd(t, i + h + SetMax(S))]
       ELSE [ok |-> FALSE, level |-> 0, title |-> <<>>, lastIndex |-> i]
\* headingRegex.exec(text) with the regex at position pos: match.index or -1
NextHeading(t, pos) ==
    LET S == {i \in pos..(Len(t) - 1) : HeadingAt(t, i).ok}
    IN IF S = {} THEN -1 ELSE SetMin(S)

\* currentHeadings.slice(0, level - 1); currentHeadings[level - 1] = '# ' + title
\* (a slot the array never assigned is <<>>)
SetHeading(cur, level, title) ==
    LET base == SubSeq(cur, 1, Min(level - 1, Len(cur)))
        pad == [k \in 1..(level - 1 - Len(base)) |-> <<>>]
    IN base \o pad \o << <<"#", " ">> \o title >>

MakeSection(text, from, to, baseOffset, baseLineOffset, lastLineCount, headings) ==
    IF Trim(Slice(text, from, to)) # <<>>
    THEN << [text |-> Slice(text, from, to), offsetStart |-> baseOffset + from,
             lineStart |-> baseLineOffset + lastLineCount + 1,
             headings |-> headings] >>
    ELSE <<>>

RECURSIVE splitLoop(_, _, _, _, _, _, _)
splitLoop(text, baseOffset, baseLineOffset, pos, lastIndex, lastLineCount, cur) ==
    LET i == NextHeading(text, pos) IN
    IF i = -1
    THEN MakeSection(text, lastIndex, Len(text), baseOffset, baseLineOffset,
                     lastLineCount, cur)
    ELSE LET m == HeadingAt(text, i) IN
         (IF i > lastIndex
          THEN MakeSection(text, lastIndex, i, baseOffset, baseLineOffset,
                           lastLineCount, cur)
          ELSE <<>>)
         \o splitLoop(text, baseOffset, baseLineOffset, m.lastIndex, i,
                      CountNewlines(Slice(text, 0, i)),
                      SetHeading(cur, m.level, Trim(m.title)))
splitByHeadings(text, baseOffset, baseLineOffset) ==
    splitLoop(text, baseOffset, baseLineOffset, 0, 0, 0, <<>>)

createChunkSectionRelative(section, chunkText, relativeOffset, fileTitle) ==
    LET precedingLines == CountNewlines(Slice(section.text, 0, relativeOffset)) IN
    [index |-> 0, text |-> chunkText,
     offsetStart |-> relativeOffset,
     offsetEnd |-> relativeOffset + Len(chunkText),
     lineStart |-> section.lineStart + precedingLines,
     lineEnd |-> section.lineStart + precedingLines + CountNewlines(chunkText),
     vectorId |-> <<>>, headings |-> section.headings, title |-> fileTitle]

createChunk(section, chunkText, relativeOffset, fileTitle) ==
    LET precedingLines == CountNewlines(Slice(section.text, 0, relativeOffset)) IN
    [index |-> 0, text |-> chunkText,
     offsetStart |-> section.offsetStart + relativeOffset,
     offsetEnd |-> section.offsetStart + relativeOffset + Len(chunkText),
     lineStart |-> section.lineStart + precedingLines,
     lineEnd |-> section.lineStart + precedingLines + CountNewlines(chunkText),
     vectorId |-> <<>>, headings |-> section.headings, title |-> fileTitle]

\* The first code block the cut at sectionGlobalEnd falls inside, <<>> if none
CutBlock(codeBlocks, sectionGlobalEnd) ==
    LET S == {k \in DOMAIN codeBlocks :
                sectionGlobalEnd > codeBlocks[k][1] /\ sectionGlobalEnd < codeBlocks[k][2]}
    IN IF S = {} THEN <<>> ELSE codeBlocks[SetMin(S)]

\* One iteration of the while loop of refineSection at cursor: the end of the window
WindowEnd(opt, section, codeBlocks, cursor) ==
    LET text == section.text
        end0 == cursor + opt.chunkSize
        lb == Max(cursor, end0 - LookbackRange)
        lookbackRange == Slice(text, lb, end0)
        lastNewline == LastIndexOf(lookbackRange, "\n")
        lastSentence == Max(Max(LastIndexOf(lookbackRange, IDEOGRAPHIC_STOP),
                                LastIndexOf(lookbackRange, ".")),
                            Max(LastIndexOf(lookbackRange, "?"),
                                LastIndexOf(lookbackRange, "!")))
        end1 == IF lastNewline > LookbackMin THEN lb + lastNewline + 1
                ELSE IF lastSentence > LookbackMin THEN lb + lastSentence + 1
                ELSE end0
        b == CutBlock(codeBlocks, section.offsetStart + end1)
    IN IF end0 >= Len(text) THEN end0
       ELSE IF b = <<>> THEN end1
       ELSE IF 2 * (b[2] - (section.offsetStart + cursor)) <= 3 * opt.chunkSize
            THEN b[2] - section.offsetStart
            ELSE b[1] - section.offsetStart

RECURSIVE refineLoopNoOverlap(_, _, _, _, _, _)
refineLoopNoOverlap(opt, section, codeBlocks, fileTitle, cursor, fuel) ==
    LET text == section.text
        end == WindowEnd(opt, section, codeBlocks, cursor)
        chunkText == Slice(text, cursor, end)
        kept == IF Len(Trim(chunkText)) >= opt.minChunkSize \/ cursor = 0
                THEN <<createChunk(section, chunkText, cursor, fileTitle)>>
                ELSE <<>>
    IN IF ~(cursor < Len(text)) \/ fuel = 0 THEN <<>>
       ELSE kept \o refineLoopNoOverlap(opt, section, codeBlocks, fileTitle, end, fuel - 1)

\* The loop's only state besides the chunks pushed is cursor, which stays
\* between -offsetStart and the length of the text: an execution of more
\* iterations than that comes back to a cursor it has had and never ends.
LoopFuel(opt, section) == Len(section.text) + section.offsetStart + 2

\* whether the while loop of refineSection, entered at cursor, is ever left:
\* not if an iteration leaves cursor where it was, nor if fuel runs out
RECURSIVE refineLoopHalts(_, _, _, _, _)
refineLoopHalts(opt, section, codeBlocks, cursor, fuel) ==
    LET text == section.text
        overlap == (opt.chunkSize * opt.overlapNum) \div opt.overlapDen
        end == WindowEnd(opt, section, codeBlocks, cursor)
        next == IF end - overlap <= cursor THEN end ELSE end - overlap
    IN IF ~(cursor < Len(text)) THEN TRUE
       ELSE IF fuel = 0 \/ next = cursor THEN FALSE
       ELSE IF next >= Len(text) - overlap /\ next < Len(text) THEN TRUE
       ELSE refineLoopHalts(opt, section, codeBlocks, next, fuel - 1)

\* the while loop of refineSection from cursor: the chunks it pushes in the
\* next fuel iterations, all of them when the loop is left
RECURSIVE refineLoop(_, _, _, _, _, _)
refineLoop(opt, section, codeBlocks, fileTitle, cursor, fuel) ==
    LET text == section.text
        overlap == (opt.chunkSize * opt.overlapNum) \div opt.overlapDen
        end == WindowEnd(opt, section, codeBlocks, cursor)
        chunkText == Slice(text, cursor, end)
        kept == IF Len(Trim(chunkText)) >= opt.minChunkSize \/ cursor = 0
                THEN <<createChunk(section, chunkText, cursor, fileTitle)>>
                ELSE <<>>
        next == IF end - overlap <= cursor THEN end ELSE end - overlap
    IN IF ~(cursor < Len(text)) \/ fuel = 0 THEN <<>>
       ELSE IF next >= Len(text) - overlap /\ next < Len(text) THEN kept
       ELSE kept \o refineLoop(opt, section, codeBlocks, fileTitle, next, fuel - 1)

refineSection(opt, section, codeBlocks, fileTitle) ==
    IF Len(section.text) <= opt.chunkSize
    THEN <<createChunk(section, section.text, 0, fileTitle)>>
    ELSE refineLoop(opt, section, codeBlocks, fileTitle, 0, LoopFuel(opt, section))

\* whether refineSection returns
refineSectionHalts(opt, section, codeBlocks) ==
    IF Len(section.text) <= opt.chunkSize THEN TRUE
    ELSE refineLoopHalts(opt, section, codeBlocks, 0, LoopFuel(opt, section))

RECURSIVE FlatMap(_, _, _, _)
FlatMap(opt, sections, codeBlocks, fileTitle) ==
    IF sections = <<>> THEN <<>>
    ELSE refineSection(opt, Head(sections), codeBlocks, fileTitle)
         \o FlatMap(opt, Tail(sections), codeBlocks, fileTitle)

chunkUnnumbered(opt, text, filePath, fileTitle) ==
    LET fm == stripFrontmatter(opt, text)
        codeBlocks == findCodeBlocks(fm.content)
        sections == splitByHeadings(fm.content, fm.offset, fm.lineOffset)
        all == FlatMap(opt, sections, codeBlocks, fileTitle)
    IN [k \in DOMAIN all |-> [all[k] EXCEPT !.vectorId = <<filePath, 0>>]]

\* MarkdownChunker.chunk
chunk(opt, text, filePath, fileTitle) ==
    LET fm == stripFrontmatter(opt, text)
        codeBlocks == findCodeBlocks(fm.content)
        sections == splitByHeadings(fm.content, fm.offset, fm.lineOffset)
        all == FlatMap(opt, sections, codeBlocks, fileTitle)
    IN [k \in DOMAIN all |->
          [all[k] EXCEPT !.index = k - 1, !.vectorId = <<filePath, k - 1>>]]

\* whether MarkdownChunker.chunk returns
chunkHalts(opt, text) ==
    LET fm == stripFrontmatter(opt, text)
        codeBlocks == findCodeBlocks(fm.content)
        sections == splitByHeadings(fm.content, fm.offset, fm.lineOffset)
    IN \A k \in DOMAIN sections : refineSectionHalts(opt, sections[k], codeBlocks)

\* ------------------------------------------------------------ vector store
Id(r) == r.id
IdsOf(rs) == {Id(r) : r \in rs}
OfPath(rs, path) == {r \in rs : r.path = path}

LanceTableTruncate(T, path) == {}

\* table.delete("file_path = '<path>'")
LanceTableDelete(T, path) == {r \in T : r.path # path}
\* table.add(rows)
LanceTableAdd(T, rows) == T \cup rows

\* for (const r of records) recordsMap.set(r.id, r)
RecordsMapSet(M, records) == {r \in M : Id(r) \notin IdsOf(records)} \cup records
\* voy.remove({embeddings: ids...})
VoyRemove(ix, ids) == ix \ ids
\* voy.add({embeddings: ...})
VoyAdd(ix, ids) == ix \cup ids

\* How a store call the scheduler issues can go: a LanceDB call settles later
\* ("pending"); VoyAdapter works synchronously up to persist(), so its
\* outcome is known when the call is issued.  The scheduler sees the same
\* rejection whichever of voy.remove ("err1") and voy.add ("err2") throws;
\* SpecStore tells them apart.
Outcomes == IF backend = "lance" THEN {"pending"} ELSE {"ok", "err1"}

\* VoyAdapter.upsert up to the await of persist(); o = "err1": voy.remove
\* throws, "err2": voy.add throws.  store = [recs, voyIndex].
VoyUpsertSync(store, records, o) ==
    IF records = {} THEN [store |-> store, res |-> "ok"]
    ELSE IF o = "err1" THEN [store |-> store, res |-> "err"]
    ELSE IF o = "err2"
         THEN [store |-> [store EXCEPT !.voyIndex = VoyRemove(@, IdsOf(records))],
               res |-> "err"]
    ELSE [store |-> [recs |-> RecordsMapSet(store.recs, records),
                     voyIndex |-> VoyAdd(VoyRemove(store.voyIndex, IdsOf(records)),
                                         IdsOf(records))],
          res |-> "ok"]

\* VoyAdapter.delete up to the await of persist(); o # "ok": voy.remove throws.
VoyDeleteSync(store, path, o) ==
    LET idsToRemove == IdsOf(OfPath(store.recs, path)) IN
    IF idsToRemove = {} THEN [store |-> store, res |-> "ok"]
    ELSE IF o # "ok" THEN [store |-> store, res |-> "err"]
    ELSE [store |-> [recs |-> {r \in store.recs : Id(r) \notin idsToRemove},
                     voyIndex |-> VoyRemove(store.voyIndex, idsToRemove)],
          res |-> "ok"]

\* db.delete(path) as far as it runs before its first suspension
IssueDelete(store, path, o) ==
    IF backend = "lance" THEN [store |-> store, res |-> "pending"]
    ELSE VoyDeleteSync(store, path, o)

\* db.upsert(records) as far as it runs before its first suspension
IssueUpsert(store, records, o) ==
    IF records = {} THEN [store |-> store, res |-> "ok"]
    ELSE IF backend = "lance" THEN [store |-> store, res |-> "pending"]
    ELSE VoyUpsertSync(store, records, o)


\* ---------------------------------------------------------- IndexScheduler
IdleDrain ==
    [pc |-> "idle", path |-> "", ver |-> 0, chunks |-> <<>>, res |-> "",
     total |-> 0, processed |-> 0]
Active(ds) == {d \in DOMAIN ds : ds[d].pc # "idle"}
InIndexFile(ds) == {d \in DOMAIN ds : ds[d].pc \in {"read", "embed", "del", "upDel", "upAdd"}}
FreeSlot(ds) ==
    IF Active(ds) = DOMAIN ds THEN 0 ELSE SetMin(DOMAIN ds \ Active(ds))

Signal(name, processed, total) == [sig |-> name, processed |-> processed, total |-> total]
INDEX_PROGRESS(processed, total) == Signal("index:progress", processed, total)
INDEX_COMPLETE == Signal("index:complete", 0, 0)
INDEX_ERROR == Signal("index:error", 0, 0)
\* logger.error("[Index] Failed to process ...")
LOG_FAILED == Signal("log:failed", 0, 0)
Emit(S, e) == [S EXCEPT !.emitted = Append(@, e)]

\* The scheduler, its store and its vault as one value; a step starts with
\* nothing emitted.
State ==
    [modelReady |-> modelReady, queue |-> queue, isBusy |-> isBusy, drains |-> drains,
     ops |-> ops, exists |-> exists, emitted |-> <<>>, pend |-> pend,
     store |-> [recs |-> recs, voyIndex |-> voyIndex]]
Becomes(S) ==
    /\ modelReady' = S.modelReady
    /\ queue' = S.queue
    /\ isBusy' = S.isBusy
    /\ drains' = S.drains
    /\ ops' = S.ops
    /\ exists' = S.exists
    /\ emitted' = S.emitted
    /\ pend' = S.pend
    /\ recs' = S.store.recs
    /\ voyIndex' = S.store.voyIndex
    /\ UNCHANGED <<backend, callVars, embedVars, chunkVars, startVars,
                   syncVars>>

\* Enqueue without the includes() test
EnqueueAlways(q, path) == Append(q, path)

\* if (!this.queue.includes(path)) this.queue.push(path)
Enqueue(q, path) == IF path \in Range(q) THEN q ELSE Append(q, path)

\* processQueue without the isBusy test
MayStartDrainIgnoringBusy(S) == S.queue # <<>> /\ S.modelReady
\* processQueue without the modelReady test
MayStartDrainIgnoringModel(S) == ~S.isBusy /\ S.queue # <<>>

\* processQueue passes its two early returns
MayStartDrain(S) == ~S.isBusy /\ S.queue # <<>> /\ S.modelReady

\* processQueue after `await this.indexFile(path)`: count, report, yield
afterIndexFile(S, d) ==
    LET n == S.drains[d].processed + 1
        t == S.drains[d].total
        S1 == [S EXCEPT !.drains[d] =
                  [IdleDrain EXCEPT !.pc = "sleep", !.total = t, !.processed = n]]
    IN IF t # 0 THEN Emit(S1, INDEX_PROGRESS(n, t)) ELSE S1

\* A finally block that emits nothing
drainEndSilent(S, d) == [S EXCEPT !.isBusy = FALSE, !.drains[d] = IdleDrain]

\* processQueue's finally block
drainEnd(S, d) ==
    Emit([S EXCEPT !.isBusy = FALSE, !.drains[d] = IdleDrain], INDEX_COMPLETE)

\* indexFile without its catch: the rejection reaches processQueue's catch
\* and finally
indexFileThrows(S, d) == drainEnd(Emit(Emit(S, LOG_FAILED), INDEX_ERROR), d)

\* A rejection inside indexFile's try block: the catch logs it and indexFile
\* returns normally.
indexFileFailed(S, d) == afterIndexFile(Emit(S, LOG_FAILED), d)

\* indexFile up to `await this.app.vault.read(file)`
indexFile(S, d) ==
    IF ~S.exists[S.drains[d].path] THEN afterIndexFile(S, d)
    ELSE [S EXCEPT !.drains[d].pc = "read"]

\* The head of processQueue's while loop
loopTop(S, d) ==
    IF S.queue # <<>>
    THEN indexFile([S EXCEPT !.queue = Tail(@),
                             !.drains[d].pc = "loop",
                             !.drains[d].path = Head(S.queue),
                             !.pend[Head(S.queue)] = "none"], d)
    ELSE drainEnd(S, d)

processQueue(S, totalForProgress) ==
    IF ~MayStartDrain(S) \/ FreeSlot(S.drains) = 0 THEN S
    ELSE LET d == FreeSlot(S.drains) IN
         loopTop([S EXCEPT !.isBusy = TRUE,
                           !.drains[d] = [IdleDrain EXCEPT !.pc = "loop",
                                                           !.total = totalForProgress]], d)

Bump(n) == IF n = "none" THEN "once" ELSE "many"

addToQueue(S, path) ==
    processQueue([S EXCEPT !.queue = Enqueue(@, path), !.pend[path] = Bump(@)], 0)

RECURSIVE EnqueueAll(_, _)
EnqueueAll(q, files) ==
    IF files = <<>> THEN q ELSE EnqueueAll(Enqueue(q, Head(files)), Tail(files))

\* files: what app.vault.getMarkdownFiles() returns
fullSync(S, files) ==
    LET S1 == [S EXCEPT !.queue = EnqueueAll(@, files),
                        !.pend = [p \in Paths |->
                                    IF p \in Range(files) THEN Bump(@[p]) ELSE @[p]]]
    IN processQueue(Emit(S1, INDEX_PROGRESS(0, Len(files))), Len(files))

\* The FILE_CHANGED handler
onFileChanged(S, path) == addToQueue(S, path)

StoreOp(kind, path, to, res) == [kind |-> kind, path |-> path, to |-> to, res |-> res]

\* A deleted notification that goes through the queue
onFileDeletedViaQueue(S, path, o) == addToQueue(S, path)

\* The FILE_DELETED handler: db.delete(path).catch(log)
onFileDeleted(S, path, o) ==
    LET r == IssueDelete(S.store, path, o) IN
    [S EXCEPT !.store = r.store, !.ops = @ \cup {StoreOp("delete", path, "", r.res)}]

\* The FILE_RENAMED handler up to `await this.db.delete(oldPath)`
onFileRenamed(S, oldPath, newPath, o) ==
    LET r == IssueDelete(S.store, oldPath, o) IN
    [S EXCEPT !.store = r.store, !.ops = @ \cup {StoreOp("rename", oldPath, newPath, r.res)}]

\* The MODEL_READY handler
onModelReady(S) == processQueue([S EXCEPT !.modelReady = TRUE], 0)

\* A handler's db.delete settles: a pending LanceDB delete takes effect or
\* fails; FILE_RENAMED then enqueues newPath or logs, FILE_DELETED logs.
opSettled(S, op, ok) ==
    LET S1 == [S EXCEPT !.ops = @ \ {op},
                        !.store.recs = IF op.res = "pending" /\ ok
                                       THEN LanceTableDelete(@, op.path) ELSE @]
    IN IF op.kind = "rename" /\ ok THEN addToQueue(S1, op.to) ELSE S1

\* chunks -> VectorRecord[] (indexFile step 5); ver stands for the text,
\* vector and metadata computed from the content read
Records(chunks, path, ver) ==
    {[id |-> chunks[i].vectorId, path |-> path, idx |-> i - 1, ver |-> ver] :
        i \in DOMAIN chunks}
\* this.chunker.chunk(content, path, file.basename) for each path and content
Chunked ==
    [path \in Paths |->
        [ver \in DocIds |-> chunk(DEFAULT_CHUNKING_OPTIONS, Docs[ver], path, path)]]
ChunksOf(path, ver) == Chunked[path][ver]

\* indexFile without the chunks.length === 0 branch
afterChunkAlwaysEmbeds(S, d, ver, chunks, o) ==
    [S EXCEPT !.drains[d].pc = "embed", !.drains[d].ver = ver,
              !.drains[d].chunks = chunks]

\* indexFile after chunking: nothing to index deletes the path's records
afterChunk(S, d, ver, chunks, o) ==
    IF Len(chunks) = 0
    THEN LET r == IssueDelete(S.store, S.drains[d].path, o) IN
         [S EXCEPT !.store = r.store, !.drains[d].pc = "del", !.drains[d].res = r.res]
    ELSE [S EXCEPT !.drains[d].pc = "embed", !.drains[d].ver = ver,
                   !.drains[d].chunks = chunks]

\* vault.read settles: ver = 0 is a rejection, else the content read
readDone(S, d, ver, o) ==
    IF ver = 0 THEN indexFileFailed(S, d)
    ELSE afterChunk(S, d, ver, ChunksOf(S.drains[d].path, ver), o)

\* embedder.embedBatch settles; on success db.upsert(records) is issued
embedDone(S, d, ok, o) ==
    IF ~ok THEN indexFileFailed(S, d)
    ELSE LET path == S.drains[d].path
             r == IssueUpsert(S.store,
                              Records(S.drains[d].chunks, path, S.drains[d].ver), o)
         IN [S EXCEPT !.store = r.store, !.drains[d].res = r.res,
                      !.drains[d].pc = IF r.res = "pending" THEN "upDel" ELSE "upAdd"]

\* The store call indexFile awaits settles.  "del": db.delete; "upDel":
\* table.delete inside LanceAdapter.upsert; "upAdd": table.add, or the end of
\* VoyAdapter.upsert.
storeDone(S, d, ok) ==
    LET D == S.drains[d]
        recs1 == CASE D.res # "pending" \/ ~ok -> S.store.recs
                   [] D.pc \in {"del", "upDel"} -> LanceTableDelete(S.store.recs, D.path)
                   [] OTHER -> LanceTableAdd(S.store.recs,
                                             Records(D.chunks, D.path, D.ver))
        S1 == [S EXCEPT !.store.recs = recs1]
    IN IF ~ok THEN indexFileFailed(S1, d)
       ELSE IF D.pc = "upDel" THEN [S1 EXCEPT !.drains[d].pc = "upAdd"]
       ELSE afterIndexFile(S1, d)

\* A loop that runs its body once
sleepDoneEndsDrain(S, d) == drainEnd(S, d)

\* The 30 ms timer ends: back to the head of the loop
sleepDone(S, d) == loopTop(S, d)

\* Documents the running drains have been given, and may still be given
WorkLoad ==
    Len(queue) + Cardinality({op \in ops : op.kind = "rename"})
    + Cardinality(InIndexFile(drains))
    + (IF \E d \in DOMAIN drains : drains[d].processed > 0
       THEN SetMax({drains[d].processed : d \in DOMAIN drains}) ELSE 0)

\* ------------------------------------------------------ Spec: the scheduler
NoCall == [kind |-> "none"]
\* The parts of the plugin a specification leaves out stay as constructed
EmbedIdle == pool = <<>> /\ mgr = <<>>
ChunkIdle == chunkIn = <<>> /\ chunkOut = <<>>
StartIdle == plugin = <<>>
SyncIdle == sync = <<>>
Init ==
    /\ backend \in {"lance", "voy"}
    /\ recs = {}
    /\ voyIndex = {}
    /\ modelReady = FALSE
    /\ queue = <<>>
    /\ isBusy = FALSE
    /\ drains = [d \in 1..MaxDrains |-> IdleDrain]
    /\ ops = {}
    /\ exists \in [Paths -> BOOLEAN]
    /\ emitted = <<>>
    /\ pend = [p \in Paths |-> "none"]
    /\ call = NoCall
    /\ EmbedIdle
    /\ ChunkIdle
    /\ StartIdle
    /\ SyncIdle

\* SyncService's debounce timer fires for path
FileChanged(path) ==
    /\ WorkLoad - Len(queue) + Len(Enqueue(queue, path)) <= MaxProcessed
    /\ Becomes(onFileChanged(State, path))

\* The vault creates or modifies path (the notification is debounced)
VaultWrite(path) ==
    /\ ~exists[path]
    /\ Becomes([State EXCEPT !.exists[path] = TRUE])

\* The vault deletes path; SyncService emits FILE_DELETED at once
FileDeleted(path, o) ==
    /\ exists[path]
    /\ Cardinality(ops) < MaxInFlight
    /\ Becomes(onFileDeleted([State EXCEPT !.exists[path] = FALSE], path, o))

\* The vault renames oldPath; SyncService emits FILE_RENAMED at once
FileRenamed(oldPath, newPath, o) ==
    /\ exists[oldPath] /\ ~exists[newPath]
    /\ Cardinality(ops) < MaxInFlight
    /\ WorkLoad < MaxProcessed
    /\ Becomes(onFileRenamed([State EXCEPT !.exists[oldPath] = FALSE,
                                           !.exists[newPath] = TRUE],
                             oldPath, newPath, o))

ModelReady == Becomes(onModelReady(State))

Orders(S) == {f \in [1..Cardinality(S) -> S] : \A i, j \in DOMAIN f : i # j => f[i] # f[j]}

FullSync(files) ==
    /\ WorkLoad - Len(queue) + Len(EnqueueAll(queue, files)) <= MaxProcessed
    /\ Becomes(fullSync(State, files))

OpSettled(op, ok) ==
    /\ op \in ops
    /\ op.res # "pending" => ok = (op.res = "ok")
    /\ Becomes(opSettled(State, op, ok))

ReadDone(d, ver, o) ==
    /\ drains[d].pc = "read"
    /\ Becomes(readDone(State, d, ver, o))

EmbedDone(d, ok, o) ==
    /\ drains[d].pc = "embed"
    /\ Becomes(embedDone(State, d, ok, o))

StoreDone(d, ok) ==
    /\ drains[d].pc \in {"del", "upDel", "upAdd"}
    /\ drains[d].res # "pending" => ok = (drains[d].res = "ok")
    /\ Becomes(storeDone(State, d, ok))

SleepDone(d) ==
    /\ drains[d].pc = "sleep"
    /\ Becomes(sleepDone(State, d))

DrainStep ==
    \E d \in DOMAIN drains :
        \/ \E ver \in {0} \cup DocIds, o \in Outcomes : ReadDone(d, ver, o)
        \/ \E ok \in BOOLEAN, o \in Outcomes : EmbedDone(d, ok, o)
        \/ \E ok \in BOOLEAN : StoreDone(d, ok)
        \/ SleepDone(d)

Next ==
    \/ \E path \in Paths : FileChanged(path)
    \/ \E path \in Paths : VaultWrite(path)
    \/ \E path \in Paths, o \in Outcomes : FileDeleted(path, o)
    \/ \E oldPath, newPath \in Paths, o \in Outcomes : FileRenamed(oldPath, newPath, o)
    \/ ModelReady
    \/ \E files \in Orders({p \in Paths : exists[p]}) : FullSync(files)
    \/ \E op \in ops, ok \in BOOLEAN : OpSettled(op, ok)
    \/ DrainStep

Spec == Init /\ [][Next]_vars

\* Every awaited call of a drain settles, and the model-ready signal arrives.
LiveSpec == Spec /\ WF_vars(DrainStep) /\ WF_vars(~modelReady /\ ModelReady)

\* The scheduler when every store call succeeds: voy.remove and voy.add do
\* not throw, and every LanceDB call resolves.
OkOutcomes == Outcomes \ {"err1"}

DrainStepOk ==
    \E d \in DOMAIN drains :
        \/ \E ver \in {0} \cup DocIds, o \in OkOutcomes : ReadDone(d, ver, o)
        \/ \E ok \in BOOLEAN, o \in OkOutcomes : EmbedDone(d, ok, o)
        \/ StoreDone(d, TRUE)
        \/ SleepDone(d)

NextOk ==
    \/ \E path \in Paths : FileChanged(path)
    \/ \E path \in Paths : VaultWrite(path)
    \/ \E path \in Paths, o \in OkOutcomes : FileDeleted(path, o)
    \/ \E oldPath, newPath \in Paths, o \in OkOutcomes : FileRenamed(oldPath, newPath, o)
    \/ ModelReady
    \/ \E files \in Orders({p \in Paths : exists[p]}) : FullSync(files)
    \/ \E op \in ops : OpSettled(op, TRUE)
    \/ DrainStepOk

SpecOk == Init /\ [][NextOk]_vars

\* ---------------------------------------------------- SpecStore: the stores
\* One caller that awaits each IVectorStore call before making the next.
Versions == 1..MaxVersion
\* The VectorRecord[] of a document version that chunks to n passages
RecordsOf(path, ver, n) ==
    {[id |-> <<path, i>>, path |-> path, idx |-> i, ver |-> ver] : i \in 0..(n - 1)}
\* voy.remove ("err1") or voy.add ("err2") may throw
StoreOutcomes == IF backend = "lance" THEN {"pending"} ELSE {"ok", "err1", "err2"}

\* stage: what the call awaits ("delete", "add": the LanceDB table call;
\* "settle": VoyAdapter's promise, after persist() if it got that far), or how
\* it ended ("done", "failed": a StorageError)
\* old: the records the store held for the path when the call was made
StoreCall(kind, path, records, r) ==
    [kind |-> kind, path |-> path, records |-> records, res |-> r.res,
     stage |-> IF r.res = "pending" THEN "delete" ELSE "settle",
     old |-> [recs |-> OfPath(recs, path),
              voyIndex |-> {id \in voyIndex : id[1] = path}]]
Returned(c) == IF c.kind = "none" THEN TRUE ELSE c.stage \in {"done", "failed"}

InitStore ==
    /\ backend \in {"lance", "voy"}
    /\ recs = {}
    /\ voyIndex = {}
    /\ modelReady = FALSE
    /\ queue = <<>>
    /\ isBusy = FALSE
    /\ drains = [d \in 1..MaxDrains |-> IdleDrain]
    /\ ops = {}
    /\ exists = [p \in Paths |-> TRUE]
    /\ emitted = <<>>
    /\ pend = [p \in Paths |-> "none"]
    /\ call = NoCall
    /\ EmbedIdle
    /\ ChunkIdle
    /\ StartIdle
    /\ SyncIdle

\* store.upsert(records) is called and runs to its first suspension
StoreUpsert(path, ver, n, o) ==
    /\ Returned(call)
    /\ LET records == RecordsOf(path, ver, n)
           r == IssueUpsert([recs |-> recs, voyIndex |-> voyIndex], records, o)
       IN /\ recs' = r.store.recs
          /\ voyIndex' = r.store.voyIndex
          /\ call' = StoreCall("upsert", path, records, r)
    /\ UNCHANGED <<backend, schedVars, embedVars, chunkVars, startVars,
                   syncVars>>

\* store.delete(filePath) is called and runs to its first suspension
StoreDelete(path, o) ==
    /\ Returned(call)
    /\ LET r == IssueDelete([recs |-> recs, voyIndex |-> voyIndex], path, o)
       IN /\ recs' = r.store.recs
          /\ voyIndex' = r.store.voyIndex
          /\ call' = StoreCall("delete", path, {}, r)
    /\ UNCHANGED <<backend, schedVars, embedVars, chunkVars, startVars,
                   syncVars>>

\* What the call awaits settles: table.delete, table.add (a rejection becomes
\* a StorageError), or persist(), which swallows its errors.
StoreSettle(ok) ==
    /\ ~Returned(call)
    /\ call.stage = "settle" => ok = (call.res = "ok")
    /\ recs' = CASE call.stage = "delete" /\ ok -> LanceTableDelete(recs, call.path)
                 [] call.stage = "add" /\ ok -> LanceTableAdd(recs, call.records)
                 [] OTHER -> recs
    /\ call' = [call EXCEPT !.stage =
                    IF ~ok THEN "failed"
                    ELSE IF call.stage = "delete" /\ call.kind = "upsert" THEN "add"
                    ELSE "done"]
    /\ UNCHANGED <<backend, voyIndex, schedVars, embedVars, chunkVars, startVars,
                   syncVars>>

NextStore ==
    \/ \E path \in Paths, ver \in Versions, n \in 0..MaxChunks, o \in StoreOutcomes :
          StoreUpsert(path, ver, n, o)
    \/ \E path \in Paths, o \in StoreOutcomes : StoreDelete(path, o)
    \/ \E ok \in BOOLEAN : StoreSettle(ok)



SpecStore == InitStore /\ [][NextStore]_vars

\* ------------------------------------------------------------------ search
\* Embeddings are normalised by the extractor (normalize: true); here every
\* vector has length 10 and a score is counted in hundredths.
EmbedVectors == << <<10, 0>>, <<6, 8>>, <<0, 10>>, <<-10, 0>> >>
\* record.vector: the embedding of passage idx of version ver of the path
VectorOf(r) ==
    EmbedVectors[((r.ver + r.idx + (IF r.path = "a.md" THEN 0 ELSE 2)) % 4) + 1]
Dot(v1, v2) == v1[1] * v2[1] + v1[2] * v2[2]
Sqrt(n) == CHOOSE k \in 0..n : k * k = n
\* 100 * dotProduct / (Math.sqrt(mag1) * Math.sqrt(mag2))
calculateCosineSimilarity(v1, v2) ==
    (100 * Dot(v1, v2)) \div (Sqrt(Dot(v1, v1)) * Sqrt(Dot(v2, v2)))
\* row._distance of a LanceDB cosine search: 1 - cosine similarity
CosineDistance(v1, v2) == 100 - calculateCosineSimilarity(v1, v2)
\* the distance the Voy index ranks by: squared Euclidean
SquaredEuclidean(v1, v2) ==
    (v1[1] - v2[1]) * (v1[1] - v2[1]) + (v1[2] - v2[2]) * (v1[2] - v2[2])

\* What a nearest-neighbour query may give: the k entries of S nearest by D
\* (all of S when it has fewer), nearest first, ties in either order.
Nearest(S, D, k) ==
    LET n == Min(k, Cardinality(S)) IN
    {q \in [1..n -> S] :
        /\ \A i, j \in 1..n : i < j => q[i] # q[j] /\ D[q[i]] <= D[q[j]]
        /\ \A s \in S \ Range(q) : \A i \in 1..n : D[q[i]] <= D[s]}

\* table.search(vector).distanceType("cosine").limit(topK).toArray()
LanceRawResults(T, vector, topK) ==
    Nearest(T, [r \in T |-> CosineDistance(vector, VectorOf(r))], topK)
\* voy.search(queryVector, topK).neighbors, as ids
VoyNeighbors(M, ix, vector, topK) ==
    Nearest(ix,
            [id \in ix |->
                IF \E r \in M : Id(r) = id
                THEN SquaredEuclidean(vector, VectorOf(CHOOSE r \in M : Id(r) = id))
                ELSE 0],
            topK)

SearchResult(r, score) == [vectorId |-> Id(r), index |-> r.idx, score |-> score]

RECURSIVE voyLoop(_, _, _, _)
voyLoop(M, vector, minScore, neighbors) ==
    IF neighbors = <<>> THEN <<>>
    ELSE LET id == Head(neighbors)
             found == {r \in M : Id(r) = id}
             rest == voyLoop(M, vector, minScore, Tail(neighbors))
         IN IF found = {} THEN rest
            ELSE LET record == CHOOSE r \in found : TRUE
                     score == calculateCosineSimilarity(vector, VectorOf(record))
                 IN IF score >= minScore
                    THEN <<SearchResult(record, score)>> \o rest
                    ELSE rest

\* LanceAdapter.search with the library's answer rawResults; open: the
\* adapter holds a table
lanceSearchUnfiltered(open, vector, minScore, rawResults) ==
    IF ~open THEN <<>>
    ELSE [i \in DOMAIN rawResults |->
            SearchResult(rawResults[i],
                         100 - CosineDistance(vector, VectorOf(rawResults[i])))]
lanceSearch(open, vector, minScore, rawResults) ==
    IF ~open THEN <<>>
    ELSE LET mapped ==
                [i \in DOMAIN rawResults |->
                    SearchResult(rawResults[i],
                                 100 - CosineDistance(vector, VectorOf(rawResults[i])))]
             reaches(x) == x.score >= minScore
         IN SelectSeq(mapped, reaches)

\* VoyAdapter.search with the library's answer neighbors; open: the adapter
\* holds a Voy index
voySearch(open, M, vector, minScore, neighbors) ==
    IF ~open THEN <<>> ELSE voyLoop(M, vector, minScore, neighbors)

\* ------------------------------------------------- SpecStart: BaizePlugin
\* onload from initVectorStore on, the store calls of the running plugin,
\* and onunload.  An adapter is "none" (not constructed), "init" (init()
\* awaited), "ready", "failed" (init() rejected) or "closed".
Platforms == {"desktop", "android", "ios"}
QueryVectors == {<<10, 0>>, <<6, 8>>}
TopKs == {1, 2}
MinScores == {0, 30, 101}
\* where the constructors of initEmbeddingPipeline's try block may throw:
\* 0 nowhere, 1 TransformersAdapter, 2 IndexScheduler, 3 SyncService
FailAts == 0..3

NewPlugin(platform) ==
    [platform |-> platform, pc |-> "onload", lance |-> "none", voy |-> "none",
     vectorStore |-> "none", indexScheduler |-> FALSE, syncService |-> FALSE]

\* initVectorStore up to its first await
initVectorStore(P) ==
    IF P.platform = "desktop"
    THEN [P EXCEPT !.lance = "init", !.pc = "lance"]
    ELSE [P EXCEPT !.voy = "init", !.pc = "voy"]

\* await lance.init() settles
lanceInitSettled(P, ok) ==
    IF ok THEN [P EXCEPT !.lance = "ready", !.vectorStore = "lance", !.pc = "pipeline"]
    ELSE [P EXCEPT !.lance = "failed", !.voy = "init", !.pc = "voy"]

\* await voy.init() settles; a rejection leaves initVectorStore and onload
voyInitSettledSwallowed(P, ok) ==
    IF ok THEN [P EXCEPT !.voy = "ready", !.vectorStore = "voy", !.pc = "pipeline"]
    ELSE [P EXCEPT !.voy = "failed", !.pc = "pipeline"]
voyInitSettled(P, ok) ==
    IF ok THEN [P EXCEPT !.voy = "ready", !.vectorStore = "voy", !.pc = "pipeline"]
    ELSE [P EXCEPT !.voy = "failed", !.pc = "thrown"]

\* initEmbeddingPipeline: returns at once without a store; an exception of
\* its try block is logged
initEmbeddingPipeline(P, failAt) ==
    IF P.vectorStore = "none" THEN [P EXCEPT !.pc = "done"]
    ELSE [P EXCEPT !.indexScheduler = failAt \notin {1, 2},
                   !.syncService = (failAt = 0),
                   !.pc = "done"]

\* onunload: vectorStore.close()
onunload(P) ==
    [P EXCEPT !.pc = "unloaded",
              !.lance = IF P.vectorStore = "lance" THEN "closed" ELSE @,
              !.voy = IF P.vectorStore = "voy" THEN "closed" ELSE @]

\* whether the adapter the plugin holds has its table / its Voy index
StoreOpen(P) == IF P.vectorStore = "none" THEN FALSE ELSE P[P.vectorStore] = "ready"

InitStart ==
    /\ plugin \in {NewPlugin(platform) : platform \in Platforms}
    /\ backend = "none"
    /\ recs = {}
    /\ voyIndex = {}
    /\ modelReady = FALSE
    /\ queue = <<>>
    /\ isBusy = FALSE
    /\ drains = [d \in 1..MaxDrains |-> IdleDrain]
    /\ ops = {}
    /\ exists = [p \in Paths |-> TRUE]
    /\ emitted = <<>>
    /\ pend = [p \in Paths |-> "none"]
    /\ call = NoCall
    /\ EmbedIdle
    /\ ChunkIdle
    /\ SyncIdle

StartBecomes(P) ==
    /\ plugin' = P
    /\ backend' = P.vectorStore
    /\ UNCHANGED <<recs, voyIndex, schedVars, callVars, embedVars, chunkVars,
                   syncVars>>

InitVectorStore ==
    /\ plugin.pc = "onload"
    /\ StartBecomes(initVectorStore(plugin))

LanceInitSettled(ok) ==
    /\ plugin.pc = "lance"
    /\ StartBecomes(lanceInitSettled(plugin, ok))

VoyInitSettled(ok) ==
    /\ plugin.pc = "voy"
    /\ StartBecomes(voyInitSettled(plugin, ok))

InitEmbeddingPipeline(failAt) ==
    /\ plugin.pc = "pipeline"
    /\ StartBecomes(initEmbeddingPipeline(plugin, failAt))

\* loadModel(...) resolves: MODEL_READY reaches the scheduler
ModelLoaded ==
    /\ plugin.pc = "done"
    /\ plugin.indexScheduler
    /\ ~modelReady
    /\ modelReady' = TRUE
    /\ UNCHANGED <<storeVars, queue, isBusy, drains, ops, exists, emitted, pend,
                   callVars, embedVars, chunkVars, startVars, syncVars>>

\* store.search(vector, topK, minScore) is called and returns
Search(vector, topK, minScore) ==
    /\ plugin.pc \in {"done", "unloaded"}
    /\ plugin.vectorStore # "none"
    /\ Returned(call)
    /\ \E raw \in IF backend = "lance"
                  THEN LanceRawResults(recs, vector, topK)
                  ELSE VoyNeighbors(recs, voyIndex, vector, topK) :
          call' = [kind |-> "search", vector |-> vector, topK |-> topK,
                   minScore |-> minScore, stage |-> "done",
                   results |->
                       IF backend = "lance"
                       THEN lanceSearch(StoreOpen(plugin), vector, minScore, raw)
                       ELSE voySearch(StoreOpen(plugin), recs, vector, minScore, raw)]
    /\ UNCHANGED <<storeVars, schedVars, embedVars, chunkVars, startVars, syncVars>>

Onunload ==
    /\ plugin.pc = "done"
    /\ Returned(call)
    /\ plugin' = onunload(plugin)
    /\ recs' = IF backend = "voy" THEN {} ELSE recs
    /\ voyIndex' = {}
    /\ UNCHANGED <<backend, schedVars, callVars, embedVars, chunkVars, syncVars>>

Running == plugin.pc = "done" /\ StoreOpen(plugin)

NextStart ==
    \/ InitVectorStore
    \/ \E ok \in BOOLEAN : LanceInitSettled(ok)
    \/ \E ok \in BOOLEAN : VoyInitSettled(ok)
    \/ \E failAt \in FailAts : InitEmbeddingPipeline(failAt)
    \/ ModelLoaded
    \/ \E vector \in QueryVectors, topK \in TopKs, minScore \in MinScores :
          Search(vector, topK, minScore)
    \/ Onunload
    \/ /\ Running
       /\ \/ \E path \in Paths, n \in 0..MaxChunks, o \in StoreOutcomes :
                StoreUpsert(path, 1, n, o)
          \/ \E path \in Paths, o \in StoreOutcomes : StoreDelete(path, o)
          \/ \E ok \in BOOLEAN : StoreSettle(ok)

SpecStart == InitStart /\ [][NextStart]_vars

\* ------------------------------------------ SpecPool: EmbeddingWorkerPool
\* The pool, the EmbeddingWorkerClient of each worker and the promises they
\* hand out, as one value.  A worker is its index in clients; a task is its
\* index in tasks, the order of the embed calls.
MaxWorkers == 2   \* workers the pool ever creates
MaxInits   == 2   \* calls of init
MaxTasks   == 3   \* calls of embed, those of embedBatch included
MaxTerminates == 2   \* calls of terminate
Texts == {"x", "y"}
\* What the worker's extractor returns for a text
Embedding(text) == <<"vec", text>>
POOL_TERMINATED == "Worker pool terminated"
WORKER_TERMINATED == "Worker terminated"
WORKER_ERROR == "worker error"

Pending == [status |-> "pending", value |-> <<>>]
Resolved(v) == [status |-> "resolved", value |-> v]
Rejected(e) == [status |-> "rejected", value |-> e]

\* new EmbeddingWorkerPool(workerPath, maxWorkers)
NewPool(maxWorkers) ==
    [maxWorkers |-> maxWorkers, workers |-> <<>>, taskQueue |-> <<>>,
     idleWorkers |-> <<>>, isInitialized |-> FALSE,
     clients |-> <<>>,     \* per worker: its two loadModel requests, and alive
     inits |-> <<>>,       \* per init call: the workers it made, its promise
     running |-> {},       \* processQueue activations awaiting a worker
     tasks |-> <<>>,       \* per embed call: its text, its promise
     batches |-> <<>>,     \* per embedBatch call: its tasks, its promise
     dispatched |-> <<>>,  \* tasks in the order they were handed to workers
     settled |-> <<>>,     \* tasks in the order their promises settled
     terminates |-> 0,     \* calls of terminate so far
     atTerminate |-> {}]   \* tasks that were queued or in flight at one of them

Terminated(P) == P.terminates > 0
Busy(P, w) == {r \in P.running : r.worker = w}

batchValueByCompletion(P, ids) ==
    LET OfBatch(t) == t \in Range(ids)
        order == SelectSeq(P.settled, OfBatch)
    IN [i \in DOMAIN order |-> P.tasks[order[i]].promise.value]

\* Promise.all(ids.map(...)) resolves with the values in the order of ids
batchValue(P, ids) == [i \in DOMAIN ids |-> P.tasks[ids[i]].promise.value]

\* Promise.all over the tasks of each embedBatch call still pending
allSettle(P) ==
    [P EXCEPT !.batches = [b \in DOMAIN @ |->
        LET B == @[b]
            bad == {i \in DOMAIN B.tasks : P.tasks[B.tasks[i]].promise.status = "rejected"}
            open == {i \in DOMAIN B.tasks : P.tasks[B.tasks[i]].promise.status = "pending"}
        IN IF B.promise.status # "pending" THEN B
           ELSE IF bad # {}
                THEN [B EXCEPT !.promise = Rejected(P.tasks[B.tasks[SetMin(bad)]].promise.value)]
           ELSE IF open = {} THEN [B EXCEPT !.promise = Resolved(batchValue(P, B.tasks))]
           ELSE B]]

\* resolve(result) / reject(err) of the promise embed returned
settleTask(P, t, promise) ==
    allSettle([P EXCEPT !.tasks[t].promise = promise, !.settled = Append(@, t)])

poolProcessQueueKeepsIdle(P) ==
    IF P.taskQueue = <<>> \/ P.idleWorkers = <<>> THEN P
    ELSE LET worker == Head(P.idleWorkers)
             task == Head(P.taskQueue)
         IN [P EXCEPT !.taskQueue = Tail(@),
                      !.dispatched = Append(@, task),
                      !.running = @ \cup
                          {[worker |-> worker, task |-> task,
                            call |-> IF P.clients[worker].alive THEN "sent" ELSE "dead"]}]

poolProcessQueueLifo(P) ==
    IF P.taskQueue = <<>> \/ P.idleWorkers = <<>> THEN P
    ELSE LET worker == Head(P.idleWorkers)
             task == P.taskQueue[Len(P.taskQueue)]
         IN [P EXCEPT !.idleWorkers = Tail(@),
                      !.taskQueue = SubSeq(@, 1, Len(@) - 1),
                      !.dispatched = Append(@, task),
                      !.running = @ \cup
                          {[worker |-> worker, task |-> task,
                            call |-> IF P.clients[worker].alive THEN "sent" ELSE "dead"]}]

\* EmbeddingWorkerPool.processQueue up to its await
poolProcessQueue(P) ==
    IF P.taskQueue = <<>> \/ P.idleWorkers = <<>> THEN P
    ELSE LET worker == Head(P.idleWorkers)
             task == Head(P.taskQueue)
         IN [P EXCEPT !.idleWorkers = Tail(@),
                      !.taskQueue = Tail(@),
                      !.dispatched = Append(@, task),
                      !.running = @ \cup
                          {[worker |-> worker, task |-> task,
                            call |-> IF P.clients[worker].alive THEN "sent" ELSE "dead"]}]

releaseNoDispatch(P, worker) ==
    [P EXCEPT !.idleWorkers = Append(@, worker)]

\* the finally block of processQueue
release(P, worker) ==
    poolProcessQueue([P EXCEPT !.idleWorkers = Append(@, worker)])

\* EmbeddingWorkerPool.embed
poolEmbed(P, text) ==
    poolProcessQueue([P EXCEPT !.tasks = Append(@, [text |-> text, promise |-> Pending]),
                               !.taskQueue = Append(@, Len(P.tasks) + 1)])

RECURSIVE embedEach(_, _)
embedEach(P, texts) ==
    IF texts = <<>> THEN P ELSE embedEach(poolEmbed(P, Head(texts)), Tail(texts))

\* EmbeddingWorkerPool.embedBatch
poolEmbedBatch(P, texts) ==
    LET ids == [i \in DOMAIN texts |-> Len(P.tasks) + i]
        P1 == embedEach(P, texts)
    IN allSettle([P1 EXCEPT !.batches =
                      Append(@, [texts |-> texts, tasks |-> ids, promise |-> Pending])])

\* processQueue after `await worker.embed(...)`: the worker answered
taskDone(P, r, ok) ==
    release(settleTask([P EXCEPT !.running = @ \ {r}], r.task,
                       IF ok THEN Resolved(Embedding(P.tasks[r.task].text))
                       ELSE Rejected(WORKER_ERROR)),
            r.worker)

\* processQueue after `await worker.embed(...)`: the client was terminated
terminatedDone(P, r) ==
    release(settleTask([P EXCEPT !.running = @ \ {r}], r.task,
                       Rejected(WORKER_TERMINATED)),
            r.worker)

\* Promise.all(initPromises) of one init call: initPromises holds the second
\* loadModel request of each worker the call created
initOutcomeAnyLoaded(P, I) ==
    IF \E w \in I.workers : P.clients[w].second = "ok" THEN "resolved"
    ELSE IF \A w \in I.workers : P.clients[w].second = "fail" THEN "rejected"
    ELSE "pending"

initOutcome(P, I) ==
    IF \E w \in I.workers : P.clients[w].second = "fail" THEN "rejected"
    ELSE IF \A w \in I.workers : P.clients[w].second = "ok" THEN "resolved"
    ELSE "pending"

\* EmbeddingWorkerPool.init after `await Promise.all(initPromises)`
initSettle(P) ==
    LET now(i) == IF P.inits[i].promise.status = "pending"
                  THEN initOutcome(P, P.inits[i]) ELSE "pending"
    IN [P EXCEPT !.inits = [i \in DOMAIN @ |->
                     IF now(i) = "resolved" THEN [@[i] EXCEPT !.promise = Resolved(<<>>)]
                     ELSE IF now(i) = "rejected" THEN [@[i] EXCEPT !.promise = Rejected(WORKER_ERROR)]
                     ELSE @[i]],
                 !.isInitialized = @ \/ \E i \in DOMAIN P.inits : now(i) = "resolved"]

\* EmbeddingWorkerPool.init up to its await
poolInit(P) ==
    IF P.isInitialized
    THEN [P EXCEPT !.inits = Append(@, [workers |-> {}, promise |-> Resolved(<<>>)])]
    ELSE LET made == (Len(P.clients) + 1)..(Len(P.clients) + P.maxWorkers)
         IN [P EXCEPT !.clients = @ \o [i \in 1..P.maxWorkers |->
                                          [first |-> "pending", second |-> "pending", alive |-> TRUE]],
                      !.workers = @ \o [i \in 1..P.maxWorkers |-> Len(P.clients) + i],
                      !.inits = Append(@, [workers |-> made, promise |-> Pending])]

\* the worker answers a loadModel request: `first` is the one whose then()
\* adds the worker to idleWorkers, `second` the one init awaits
loadSettled(P, w, which, ok) ==
    LET res == IF ok THEN "ok" ELSE "fail" IN
    IF which = "first"
    THEN LET P1 == [P EXCEPT !.clients[w].first = res]
         IN IF ok THEN release(P1, w) ELSE P1
    ELSE initSettle([P EXCEPT !.clients[w].second = res])

RECURSIVE rejectQueued(_, _)
rejectQueued(P, q) ==
    IF q = <<>> THEN P
    ELSE rejectQueued(settleTask(P, Head(q), Rejected(POOL_TERMINATED)), Tail(q))

\* EmbeddingWorkerClient.terminate on every worker of the pool: each pending
\* request is rejected
clientsTerminate(P) ==
    LET ws == Range(P.workers)
        end(x) == IF x = "pending" THEN "fail" ELSE x
    IN initSettle(
        [P EXCEPT !.clients = [w \in DOMAIN @ |->
                      IF w \in ws
                      THEN [first |-> end(@[w].first), second |-> end(@[w].second), alive |-> FALSE]
                      ELSE @[w]],
                  !.running = {IF r.worker \in ws /\ r.call = "sent"
                               THEN [r EXCEPT !.call = "rejected"] ELSE r : r \in @}])

\* EmbeddingWorkerPool.terminate
poolTerminate(P) ==
    LET P1 == clientsTerminate(P)
        P2 == [P1 EXCEPT !.workers = <<>>, !.idleWorkers = <<>>,
                         !.terminates = @ + 1,
                         !.atTerminate = @ \cup Range(P.taskQueue) \cup {r.task : r \in P.running}]
        P3 == rejectQueued(P2, P2.taskQueue)
    IN [P3 EXCEPT !.taskQueue = <<>>]

\* ---- SpecPool
\* no scheduler and no store in this specification
SchedulerIdle ==
    /\ backend = "voy" /\ recs = {} /\ voyIndex = {}
    /\ modelReady = FALSE /\ queue = <<>> /\ isBusy = FALSE
    /\ drains = [d \in 1..MaxDrains |-> IdleDrain]
    /\ ops = {} /\ exists = [p \in Paths |-> TRUE]
    /\ emitted = <<>> /\ pend = [p \in Paths |-> "none"]
    /\ call = NoCall

PoolRest == SchedulerIdle /\ mgr = <<>> /\ ChunkIdle /\ StartIdle /\ SyncIdle

PoolBecomes(P) ==
    /\ pool' = P
    /\ UNCHANGED <<storeVars, schedVars, callVars, mgr, chunkVars, startVars,
                   syncVars>>

InitPool ==
    /\ \E n \in 1..MaxWorkers : pool = NewPool(n)
    /\ PoolRest

\* somebody calls pool.init
PoolInit ==
    /\ Len(pool.inits) < MaxInits
    /\ pool.isInitialized \/ Len(pool.clients) + pool.maxWorkers <= MaxWorkers
    /\ PoolBecomes(poolInit(pool))

\* a worker answers one of its loadModel requests
LoadSettled(w, which, ok) ==
    /\ w \in DOMAIN pool.clients
    /\ pool.clients[w].alive
    /\ pool.clients[w][which] = "pending"
    /\ PoolBecomes(loadSettled(pool, w, which, ok))

\* somebody calls pool.embed(text)
PoolEmbed(text) ==
    /\ Len(pool.tasks) < MaxTasks
    /\ PoolBecomes(poolEmbed(pool, text))

\* somebody calls pool.embedBatch(texts)
PoolEmbedBatch(texts) ==
    /\ Len(pool.tasks) + Len(texts) <= MaxTasks
    /\ pool.batches = <<>>
    /\ PoolBecomes(poolEmbedBatch(pool, texts))

\* a worker answers an embed request
TaskDone(r, ok) ==
    /\ r \in pool.running
    /\ r.call = "sent"
    /\ PoolBecomes(taskDone(pool, r, ok))

\* the rejection of an embed request by terminate reaches processQueue
TerminatedDone(r) ==
    /\ r \in pool.running
    /\ r.call = "rejected"
    /\ PoolBecomes(terminatedDone(pool, r))

\* somebody calls pool.terminate
PoolTerminate ==
    /\ pool.terminates < MaxTerminates
    /\ PoolBecomes(poolTerminate(pool))

\* the argument of embedBatch: no text, or two (one text alone goes through
\* the same Promise.all, and is what PoolEmbed submits)
Batches == {<<>>, <<"x", "y">>}

WorkerReturns ==
    \/ \E w \in 1..MaxWorkers : \E which \in {"first", "second"} : \E ok \in BOOLEAN :
           LoadSettled(w, which, ok)
    \/ \E r \in pool.running : \E ok \in BOOLEAN : TaskDone(r, ok)
    \/ \E r \in pool.running : TerminatedDone(r)

NextPool ==
    \/ PoolInit
    \/ \E text \in Texts : PoolEmbed(text)
    \/ \E texts \in Batches : PoolEmbedBatch(texts)
    \/ PoolTerminate
    \/ WorkerReturns

SpecPool == InitPool /\ [][NextPool]_vars

\* every request sent to a live worker is answered
LivePool == SpecPool /\ WF_vars(WorkerReturns)

\* ------------------------------------- SpecManager: ModelManager.prepareModel
\* The manager's statuses map and the activations of prepareModel.  What
\* workerPool.init answers is the environment's choice.
MaxCalls == 2             \* calls of prepareModel
DefaultMaxRetries == 3    \* the default of the maxRetries parameter
ModelIds == {"m1", "m2"}
RetryArgs == 0..DefaultMaxRetries
Progresses == {50}

NoStatus == [progress |-> 0, status |-> "none"]
NewManager == [statuses |-> [m \in ModelIds |-> NoStatus], calls |-> <<>>]

\* ModelManager.isReady
isReady(M, modelId) == M.statuses[modelId].status = "ready"

\* this.statuses.set(modelId, {modelId, progress, status})
setStatus(M, modelId, progress, status) ==
    [M EXCEPT !.statuses[modelId] = [progress |-> progress, status |-> status]]

\* Math.pow(2, attempt) * 1000
backoffDelay(attempt) == (2 ^ attempt) * 1000

\* prepareModel after its loop: status "error", throw
prepareFails(M, c) ==
    LET M1 == setStatus(M, M.calls[c].modelId, 0, "error")
    IN [M1 EXCEPT !.calls[c].pc = "thrown"]

\* the loop test and the body up to `await this.workerPool.init(...)`
loopOrFail(M, c) ==
    IF M.calls[c].attempt < M.calls[c].maxRetries
    THEN [M EXCEPT !.calls[c].pc = "init", !.calls[c].inits = @ + 1]
    ELSE prepareFails(M, c)

\* prepareModel up to its first await
prepareModel(M, modelId, maxRetries) ==
    LET c == Len(M.calls) + 1
        M1 == setStatus(M, modelId, 0, "downloading")
        M2 == [M1 EXCEPT !.calls = Append(@,
                   [modelId |-> modelId, maxRetries |-> maxRetries, attempt |-> 0,
                    pc |-> "start", inits |-> 0, waits |-> <<>>, succeeded |-> FALSE])]
    IN loopOrFail(M2, c)

\* workerPool.init resolved: status "ready", return
initResolved(M, c) ==
    LET M1 == setStatus(M, M.calls[c].modelId, 100, "ready")
    IN [M1 EXCEPT !.calls[c].pc = "returned", !.calls[c].succeeded = TRUE]

initRejectedOneMore(M, c) ==
    LET attempt == M.calls[c].attempt + 1
        M1 == [M EXCEPT !.calls[c].attempt = attempt]
    IN IF attempt <= M.calls[c].maxRetries
       THEN [M1 EXCEPT !.calls[c].pc = "backoff",
                       !.calls[c].waits = Append(@, backoffDelay(attempt))]
       ELSE prepareFails(M1, c)

\* workerPool.init rejected: the catch block, up to its await or the throw
initRejected(M, c) ==
    LET attempt == M.calls[c].attempt + 1
        M1 == [M EXCEPT !.calls[c].attempt = attempt]
    IN IF attempt < M.calls[c].maxRetries
       THEN [M1 EXCEPT !.calls[c].pc = "backoff",
                       !.calls[c].waits = Append(@, backoffDelay(attempt))]
       ELSE loopOrFail(M1, c)

\* the backoff timer fired: back to the loop test
backoffDone(M, c) == loopOrFail(M, c)

\* the progress callback handed to workerPool.init
onProgress(M, c, p) == setStatus(M, M.calls[c].modelId, p, "downloading")

\* ---- SpecManager
MgrBecomes(M) ==
    /\ mgr' = M
    /\ UNCHANGED <<storeVars, schedVars, callVars, pool, chunkVars, startVars,
                   syncVars>>

InitManager ==
    /\ mgr = NewManager
    /\ SchedulerIdle /\ pool = <<>> /\ ChunkIdle /\ StartIdle /\ SyncIdle

\* somebody calls prepareModel(modelId, onProgress, maxRetries)
PrepareModel(modelId, maxRetries) ==
    /\ Len(mgr.calls) < MaxCalls
    /\ MgrBecomes(prepareModel(mgr, modelId, maxRetries))

\* the pool answers an init call
InitSettled(c, ok) ==
    /\ mgr.calls[c].pc = "init"
    /\ MgrBecomes(IF ok THEN initResolved(mgr, c) ELSE initRejected(mgr, c))

\* setTimeout(resolve, delay) fires
BackoffDone(c) ==
    /\ mgr.calls[c].pc = "backoff"
    /\ MgrBecomes(backoffDone(mgr, c))

\* a worker reports load progress for an init this call started
Progress(c, p) ==
    /\ mgr.calls[c].inits > 0
    /\ MgrBecomes(onProgress(mgr, c, p))

NextManager ==
    \/ \E modelId \in ModelIds : \E maxRetries \in RetryArgs : PrepareModel(modelId, maxRetries)
    \/ \E c \in DOMAIN mgr.calls : \E ok \in BOOLEAN : InitSettled(c, ok)
    \/ \E c \in DOMAIN mgr.calls : BackoffDone(c)
    \/ \E c \in DOMAIN mgr.calls : \E p \in Progresses : Progress(c, p)

SpecManager == InitManager /\ [][NextManager]_vars

\* ------------------------------------------- SpecChunk: MarkdownChunker.chunk
\* One call of chunk on a document, under the default options and under
\* options small enough to enumerate documents around the thresholds.
MaxBody == 7   \* characters between the fences of an enumerated document
SMALL_CHUNKING_OPTIONS ==
    [chunkSize |-> 8, overlapNum |-> 15, overlapDen |-> 100,
     minChunkSize |-> 2, keepFrontmatter |-> FALSE]
ChunkOptions == {DEFAULT_CHUNKING_OPTIONS, SMALL_CHUNKING_OPTIONS}

Fenced(body) == Ticks \o body \o Ticks
Rep(c, n) == [i \in 1..n |-> c]
Bodies == UNION {[1..n -> {"a", "\n"}] : n \in 0..MaxBody}
\* fenced blocks of 496, 706 and 751 characters: within chunkSize, within
\* 1.5 x chunkSize, and beyond it, for the default chunkSize of 500
LongBodies == {Rep("a", 490), Rep("a", 700), Rep("a", 745)}
MaxLines == 4   \* lines of a document put together from lines
HeadingLine(level, title) == Rep("#", level) \o <<" ", title, "\n">>
FenceLine == Ticks \o <<"\n">>
TextLine == <<"a", "a", ".", "\n">>
Lines == {HeadingLine(1, "A"), HeadingLine(2, "B"), HeadingLine(3, "C"),
          HeadingLine(2, "D"), FenceLine, TextLine}
Frontmatter == Dashes \o <<"\n", "k", "\n">> \o Dashes \o <<"\n">>
RECURSIVE Concat(_)
Concat(ls) == IF ls = <<>> THEN <<>> ELSE Head(ls) \o Concat(Tail(ls))
\* documents of up to MaxLines lines, with and without frontmatter
LineDocs ==
    LET bodies == {Concat(ls) : ls \in UNION {[1..n -> Lines] : n \in 0..MaxLines}}
    IN bodies \cup {Frontmatter \o b : b \in bodies}
\* documents without line breaks of 501, 760 and 1200 characters: plain
\* text, and text around a fenced block of 100 characters within a window,
\* the latter also after a frontmatter block
LongDocs == {Rep("a", 501), Rep("a", 1200),
             Rep("a", 460) \o Fenced(Rep("a", 94)) \o Rep("a", 200),
             Frontmatter \o Rep("a", 460) \o Fenced(Rep("a", 94)) \o Rep("a", 200)}
MaxPlain == 30   \* characters of a document of plain text
PlainDocs == {Rep("a", n) : n \in 0..MaxPlain}
\* a line of text followed by a fenced block
PrefixedBlocks == {TextLine \o Fenced(Rep("a", n)) : n \in 0..MaxBody}
ShortDocs ==
    {Fenced(b) : b \in Bodies} \cup Range(Docs) \cup LineDocs \cup PlainDocs
        \cup PrefixedBlocks
ChunkDocs == ShortDocs \cup {Fenced(b) : b \in LongBodies} \cup LongDocs
\* the short documents under both options, the long ones under the default
ChunkInputs ==
    [opt : ChunkOptions, text : ShortDocs]
        \cup [opt : {DEFAULT_CHUNKING_OPTIONS}, text : ChunkDocs]

\* chunk(text, filePath, fileTitle): its result, or that it never returns
chunkCall(opt, text) ==
    IF chunkHalts(opt, text)
    THEN [status |-> "returned", chunks |-> chunk(opt, text, "a.md", "a")]
    ELSE [status |-> "loops", chunks |-> <<>>]

InitChunk ==
    /\ chunkIn \in ChunkInputs
    /\ chunkOut = <<>>
    /\ SchedulerIdle /\ EmbedIdle /\ StartIdle /\ SyncIdle

\* new MarkdownChunker(opt).chunk(text, ...) is called
ChunkCall ==
    /\ chunkOut = <<>>
    /\ chunkOut' = chunkCall(chunkIn.opt, chunkIn.text)
    /\ UNCHANGED <<storeVars, schedVars, callVars, embedVars, chunkIn, startVars,
                   syncVars>>

NextChunk == ChunkCall

SpecChunk == InitChunk /\ [][NextChunk]_vars

\* --------------------------------------------------- SpecSync: SyncService
\* Time is counted in milliseconds and advances in steps of at most TickMs
TickMs == 100
MaxTime == 1100
\* vault events of one run that pass the handler's filter
MaxEvents == 3
\* the delay given to setTimeout
DebounceMs == 500
FILE_CHANGED == "file:changed"
FILE_DELETED == "file:deleted"
\* The folders excluded at construction
excludePaths == {".obsidian/", ".trash/"}
\* TAbstractFiles of the vault: path = folder \o name; a TFolder has no extension
SyncFiles ==
    {[isFile |-> TRUE, folder |-> "", name |-> p, extension |-> "md"] : p \in Paths}
        \cup {[isFile |-> TRUE, folder |-> ".trash/", name |-> "a.md",
               extension |-> "md"],
              [isFile |-> TRUE, folder |-> "", name |-> "c.txt",
               extension |-> "txt"],
              [isFile |-> FALSE, folder |-> "", name |-> "notes",
               extension |-> ""]}
PathOf(file) == file.folder \o file.name
\* vault.on("modify" | "create" | "delete")
VaultEvents == {"modify", "create", "delete"}
\* timers: the pending setTimeout callbacks of the event loop;
\* debounceTimers: path -> due time of the timer recorded for it;
\* events, emits: what was delivered and what was emitted, with the time
NewSyncService ==
    [now |-> 0,
     timers |-> {},
     debounceTimers |-> <<>>,
     events |-> <<>>,
     emits |-> <<>>]

\* path.startsWith(ex) for some excluded folder
isExcluded(file) == \E ex \in excludePaths : file.folder = ex
\* file instanceof TFile, a markdown file, not excluded
Accepted(file) == file.isFile /\ file.extension = "md" /\ ~isExcluded(file)

\* debounceTimers.set(path, setTimeout(callback, 500))
setTimeout(Y, path) ==
    [Y EXCEPT !.timers = @ \cup {[path |-> path, due |-> Y.now + DebounceMs]},
              !.debounceTimers =
                  [q \in DOMAIN @ \cup {path} |->
                      IF q = path THEN Y.now + DebounceMs ELSE @[q]]]
\* clearTimeout(debounceTimers.get(path))
clearTimeout(Y, path) ==
    [Y EXCEPT !.timers = @ \ {[path |-> path, due |-> Y.debounceTimers[path]]}]
SyncEmit(Y, sig, path) ==
    [Y EXCEPT !.emits = Append(@, [sig |-> sig, path |-> path, at |-> Y.now])]

\* handleFileEvent that leaves the earlier timer of the path running
handleFileEventNoClear(Y, file, type) ==
    IF ~Accepted(file) THEN Y
    ELSE IF type = "deleted" THEN SyncEmit(Y, FILE_DELETED, PathOf(file))
    ELSE setTimeout(Y, PathOf(file))

handleFileEvent(Y, file, type) ==
    IF ~Accepted(file) THEN Y
    ELSE IF type = "deleted" THEN SyncEmit(Y, FILE_DELETED, PathOf(file))
    ELSE setTimeout(IF PathOf(file) \in DOMAIN Y.debounceTimers
                        THEN clearTimeout(Y, PathOf(file))
                        ELSE Y,
                    PathOf(file))

\* The callback given to setTimeout
timerCallback(Y, t) ==
    SyncEmit([Y EXCEPT !.timers = @ \ {t},
                       !.debounceTimers = [q \in DOMAIN @ \ {t.path} |-> @[q]]],
             FILE_CHANGED, t.path)

\* setupListeners: modify and create are "changed", delete is "deleted"
TypeOf(ev) == IF ev = "delete" THEN "deleted" ELSE "changed"
\* The delivery of a changed event is noted with its time
Delivered(Y, file, type) ==
    IF Accepted(file) /\ type = "changed"
        THEN [Y EXCEPT !.events = Append(@, [path |-> PathOf(file), at |-> Y.now])]
        ELSE Y
Deliveries(Y) == Len(Y.events)
                     + Cardinality({i \in DOMAIN Y.emits : Y.emits[i].sig = FILE_DELETED})

InitSync ==
    /\ sync = NewSyncService
    /\ SchedulerIdle /\ EmbedIdle /\ ChunkIdle /\ StartIdle

SyncBecomes(Y) ==
    /\ sync' = Y
    /\ UNCHANGED <<storeVars, schedVars, callVars, embedVars, chunkVars, startVars>>

\* The vault reports ev on file
VaultEvent(file, ev) ==
    /\ Deliveries(sync) < MaxEvents
    /\ SyncBecomes(handleFileEvent(Delivered(sync, file, TypeOf(ev)), file,
                                   TypeOf(ev)))

\* A timer whose delay has elapsed runs its callback
TimerFires(path) ==
    \E t \in sync.timers :
        /\ t.path = path
        /\ t.due <= sync.now
        /\ SyncBecomes(timerCallback(sync, t))

\* Time passes; a timer that is due runs before the clock moves on
Tick ==
    /\ sync.now < MaxTime
    /\ \A t \in sync.timers : t.due > sync.now
    /\ SyncBecomes([sync EXCEPT !.now =
                        SetMin({@ + TickMs} \cup {t.due : t \in sync.timers})])

NextSync ==
    \/ \E file \in SyncFiles, ev \in VaultEvents : VaultEvent(file, ev)
    \/ \E path \in Paths : TimerFires(path)
    \/ Tick

SpecSync == InitSync /\ [][NextSync]_vars

\* ------------------------------------------------------------------ claims
NoDup(q) == \A i, j \in DOMAIN q : i # j => q[i] # q[j]
Count(s, e) == Cardinality({i \in DOMAIN s : s[i] = e})
IsPrefix(q, r) == Len(q) <= Len(r) /\ SubSeq(r, 1, Len(q)) = q
Emitted(e) == e \in Range(emitted)
\* The path whose indexFile call drain d is inside
PassOf(d) == IF d \in InIndexFile(drains) THEN {drains[d].path} ELSE {}
\* A pass over p starts in this step: p is shifted off the queue
PassStarts(p) == queue # <<>> /\ Head(queue) = p /\ queue' = Tail(queue)

\* C1: Under every interleaving of change, rename, full-sync and model-ready
\* signals at most one activation of processQueue is running, so at most one
\* document is inside indexFile, and isBusy tells whether one is running.
C1_SingleDrain ==
    /\ Cardinality(Active(drains)) <= 1
    /\ Cardinality(InIndexFile(drains)) <= 1
    /\ isBusy <=> Active(drains) # {}
\* A trigger arrived while a drain was inside indexFile: the path being
\* indexed is queued again behind it.
C1_Witness ==
    \E d \in InIndexFile(drains) :
        isBusy /\ modelReady /\ drains[d].path \in Range(queue)

\* C2: For both backends, an upsert of a path's records that succeeds leaves
\* the store holding exactly the ids upserted for that path, also when the
\* path had more passages before, and no step of an upsert changes the
\* records of another path.
StoredIds(T, ix, path) ==
    IdsOf(OfPath(T, path)) \cup {id \in ix : id[1] = path}
C2_UpsertReplaces ==
    [][/\ call'.kind = "upsert" /\ call'.stage = "done" /\ call'.records # {}
            => StoredIds(recs', voyIndex', call'.path) = IdsOf(call'.records)
       /\ \A p \in Paths :
            call'.kind = "upsert" /\ p # call'.path
                => OfPath(recs', p) = OfPath(recs, p)]_vars
\* A successful upsert has returned and the path holds an id it did not write
C2_Witness ==
    /\ call.kind = "upsert" /\ call.stage = "done" /\ call.records # {}
    /\ StoredIds(recs, voyIndex, call.path) \ IdsOf(call.records) # {}

\* C3: The queue never holds a path twice, and a path enqueued any number of
\* times since its last pass started holds exactly one queue entry, so those
\* enqueues get exactly one pass.
C3_QueueDedup ==
    /\ NoDup(queue)
    /\ \A p \in Paths : Count(queue, p) = IF pend[p] = "none" THEN 0 ELSE 1
C3_Witness ==
    \E p \in Paths : pend[p] = "many" /\ Count(queue, p) = 1 /\ isBusy

C5_DeleteOutsidePass ==
    [][\A d \in DOMAIN drains : \A op \in (ops' \ ops) \cup (ops \ ops') :
           op.path \notin PassOf(d)]_vars
\* The handler's delete of a path is in flight while that path is indexed
C5_Witness ==
    \E d \in DOMAIN drains : \E op \in ops : op.path \in PassOf(d)

C7_FailureEmitsError == Emitted(LOG_FAILED) => Emitted(INDEX_ERROR)
C7_Witness == Emitted(LOG_FAILED) /\ ~Emitted(INDEX_ERROR)

\* C8: Each drain emits INDEX_COMPLETE exactly once, in the step that ends
\* it, and at that moment the queue is empty and isBusy is false.
C8_CompleteOnce ==
    [][/\ Count(emitted', INDEX_COMPLETE) = IF isBusy /\ ~isBusy' THEN 1 ELSE 0
       /\ Emitted(INDEX_COMPLETE)' => queue' = <<>> /\ ~isBusy']_vars
C8_Witness ==
    Emitted(INDEX_COMPLETE) /\ queue = <<>> /\ ~isBusy /\ Active(drains) = {}

\* C9: While the model is not ready processQueue processes nothing: the queue
\* only grows and isBusy stays false; the first pass starts in the step that
\* handles MODEL_READY, which starts a drain when paths are queued.
C9_NotReadyNoPass ==
    /\ [](~modelReady => ~isBusy /\ Active(drains) = {})
    /\ [][~modelReady' => IsPrefix(queue, queue')]_vars
    /\ [][~modelReady /\ modelReady' /\ queue # <<>>
            => isBusy' /\ PassStarts(Head(queue))]_vars
\* Paths were enqueued, and processQueue called, before the model was ready
C9_Witness == ~modelReady /\ Len(queue) = 2 /\ ~isBusy

\* C10: A document whose body is empty or only whitespace chunks to zero
\* passages; indexing a document that chunks to zero passages issues
\* store.delete(path) and no upsert, and once that delete has succeeded the
\* store holds no record of the path.
ZeroChunks(ver) == Len(ChunksOf("a.md", ver)) = 0
BlankBody(ver) == Trim(stripFrontmatter(DEFAULT_CHUNKING_OPTIONS, Docs[ver]).content) = <<>>
AwaitsUpsert(d) == drains[d].pc \in {"embed", "upDel", "upAdd"}
C10_EmptyDocDeletes ==
    /\ [](\A ver \in DocIds : BlankBody(ver) => ZeroChunks(ver))
    /\ [][\A d \in DOMAIN drains : \A ver \in DocIds : \A o \in Outcomes :
            ReadDone(d, ver, o) /\ ZeroChunks(ver)
                => drains'[d].pc = "del" /\ drains'[d].path = drains[d].path]_vars
    /\ [][\A d \in DOMAIN drains :
            drains[d].pc = "del" => ~AwaitsUpsert(d)']_vars
    /\ [][\A d \in DOMAIN drains : \A ok \in BOOLEAN :
            drains[d].pc = "del" /\ StoreDone(d, ok) /\ ok
                => /\ OfPath(recs', drains[d].path) = {}
                   /\ {id \in voyIndex' : id[1] = drains[d].path} = {}]_vars
\* The now empty document still has the records of its earlier content when
\* the delete is issued.
C10_Witness ==
    \E d \in DOMAIN drains :
        drains[d].pc = "del" /\ OfPath(recs, drains[d].path) # {}

\* C11: A deleted notification for p issues store.delete(p) at once, whether
\* or not the model is ready or a drain is running, and leaves the queue,
\* isBusy and the running drain as they were; when that delete settles, by
\* success or by rejection, it is dropped without a retry, nothing is emitted
\* and the queue, isBusy and the running drain are again left as they were.
SchedulerUntouched ==
    /\ queue' = queue /\ isBusy' = isBusy /\ drains' = drains
    /\ modelReady' = modelReady /\ pend' = pend /\ emitted' = <<>>
C11_DeletedBypassesQueue ==
    [][/\ \A path \in Paths : \A o \in Outcomes :
            FileDeleted(path, o)
                => /\ SchedulerUntouched
                   /\ \E op \in ops' : op.kind = "delete" /\ op.path = path
                   /\ backend = "voy" /\ o = "ok" => OfPath(recs', path) = {}
       /\ \A op \in ops : \A ok \in BOOLEAN :
            op.kind = "delete" /\ OpSettled(op, ok)
                => /\ SchedulerUntouched
                   /\ ops' = ops \ {op}
                   /\ ~ok => recs' = recs /\ voyIndex' = voyIndex]_vars
\* The delete of a path is in flight, and will fail, while a drain is running
\* with a path waiting in the queue
C11_Witness ==
    \E op \in ops :
        op.kind = "delete" /\ op.res = "err" /\ isBusy /\ queue # <<>>

\* C12: Every renamed notification (old, new) issues store.delete(old) and,
\* once that delete has settled, by success or by rejection, new is queued
\* or a drain has taken it (the step that settles the delete starts a drain).
C12_RenameEnqueuesNew ==
    [][\A op \in ops : \A ok \in BOOLEAN :
          op.kind = "rename" /\ OpSettled(op, ok)
              => op.to \in Range(queue') \/ drains' # drains]_vars
\* The rename handler's delete is about to be rejected
C12_Witness ==
    \E op \in ops : op.kind = "rename" /\ op.res = "err" /\ op.to \notin Range(queue)

\* C13: an init call of the pool resolves, and marks the pool initialized,
\* only if the awaited model load succeeded on every worker the call
\* created; as soon as the load has failed on one of them the call is
\* rejected, and the pool is initialized only by a call whose workers all
\* loaded.
AllLoaded(I) == \A w \in I.workers : pool.clients[w].second = "ok"
C13_InitAllOrNothing ==
    /\ \A i \in DOMAIN pool.inits :
         LET I == pool.inits[i] IN
         /\ I.promise.status = "resolved" =>
                IF I.workers = {} THEN pool.isInitialized ELSE AllLoaded(I)
         /\ (\E w \in I.workers : pool.clients[w].second = "fail")
                => I.promise.status = "rejected"
    /\ pool.isInitialized =>
         \E i \in DOMAIN pool.inits :
             /\ pool.inits[i].workers # {}
             /\ pool.inits[i].promise.status = "resolved"
             /\ AllLoaded(pool.inits[i])
C13_Witness ==
    /\ ~pool.isInitialized
    /\ \E i \in DOMAIN pool.inits :
         /\ pool.inits[i].promise.status = "rejected"
         /\ \E w \in pool.inits[i].workers : pool.clients[w].second = "ok"
         /\ \E w \in pool.inits[i].workers : pool.clients[w].second = "fail"


\* C14: the pool dispatches first in, first out and never idles a worker
\* while a task waits: tasks leave taskQueue from its head, in the order
\* they were submitted, each to the worker at the head of idleWorkers, and
\* after every operation of the pool taskQueue and idleWorkers are never
\* both non-empty.
WorkerOf(P, t) == (CHOOSE r \in P.running : r.task = t).worker
\* workers that became available in this step
Held(P, w) == {r.task : r \in Busy(P, w)}
Freed == {w \in DOMAIN pool'.clients :
            /\ w \notin Range(pool.idleWorkers)
            /\ w \in Range(pool'.idleWorkers) \/ Held(pool', w) \ Held(pool, w) # {}}
C14_FifoWorkConserving ==
    /\ [](~(pool.taskQueue # <<>> /\ pool.idleWorkers # <<>>))
    /\ [][LET k == Len(pool'.dispatched) - Len(pool.dispatched)
              waiting == pool.taskQueue \o
                         [i \in 1..(Len(pool'.tasks) - Len(pool.tasks)) |-> Len(pool.tasks) + i]
              free == pool.idleWorkers \o
                      (IF Freed = {} THEN <<>> ELSE <<CHOOSE w \in Freed : TRUE>>)
          IN /\ k >= 0
             /\ Cardinality(Freed) <= 1
             /\ IsPrefix(pool.dispatched, pool'.dispatched)
             /\ \A i \in 1..k :
                  /\ i <= Len(waiting) /\ i <= Len(free)
                  /\ pool'.dispatched[Len(pool.dispatched) + i] = waiting[i]
                  /\ WorkerOf(pool', waiting[i]) = free[i]
             /\ pool'.terminates = pool.terminates =>
                  /\ pool'.taskQueue = SubSeq(waiting, k + 1, Len(waiting))
                  /\ pool'.idleWorkers = SubSeq(free, k + 1, Len(free))]_vars
C14_Witness ==
    /\ Len(pool.dispatched) >= 2
    /\ Len(pool.taskQueue) >= 1
    /\ pool.idleWorkers = <<>>
    /\ \E t \in DOMAIN pool.tasks : pool.tasks[t].promise.status = "resolved"

\* C15: every worker of the pool whose model load made it available is
\* either in idleWorkers exactly once or executing exactly one task, never
\* both; a worker whose task finished, with a result or with an error, is put
\* back and dispatch is attempted again; no task is handed to two workers.
Loaded(P) == {w \in Range(P.workers) : P.clients[w].first = "ok"}
Submitted(t) == t \in DOMAIN pool.tasks
Finished(t) ==
    /\ Submitted(t)
    /\ pool.tasks[t].promise.status # "pending"
    /\ t \in Range(pool.dispatched)
BatchTasks(B) == {B.tasks[i] : i \in DOMAIN B.tasks}
C17_BatchKeepsOrder ==
    \A b \in DOMAIN pool.batches :
        LET B == pool.batches[b] IN
        /\ Len(B.tasks) = Len(B.texts)
        /\ NoDup(B.tasks)
        /\ \A i \in DOMAIN B.texts :
             B.tasks[i] \in DOMAIN pool.tasks /\ pool.tasks[B.tasks[i]].text = B.texts[i]
        /\ B.promise.status = "resolved" =>
             /\ Len(B.promise.value) = Len(B.texts)
             /\ \A i \in DOMAIN B.texts : B.promise.value[i] = Embedding(B.texts[i])
        /\ (\E t \in BatchTasks(B) : pool.tasks[t].promise.status = "rejected")
             => B.promise.status = "rejected"
        /\ (\A t \in BatchTasks(B) : pool.tasks[t].promise.status = "resolved")
             => B.promise.status = "resolved"
C17_Witness ==
    \E b \in DOMAIN pool.batches :
        LET B == pool.batches[b] IN
        /\ B.texts = <<"x", "y">>
        /\ B.promise.status = "resolved"
        /\ \E i, j \in DOMAIN pool.settled :
             i < j /\ pool.settled[i] = B.tasks[2] /\ pool.settled[j] = B.tasks[1]

\* C18: when terminate() is called, the promise of every task then in
\* taskQueue and of every task then in flight is rejected with a termination
\* error, so none stays pending forever, and taskQueue is empty afterwards.
StatusOf(t) == IF t \in DOMAIN pool.tasks THEN pool.tasks[t].promise.status ELSE "none"
TerminationError(t) ==
    IF t \in DOMAIN pool.tasks
    THEN pool.tasks[t].promise \in {Rejected(POOL_TERMINATED), Rejected(WORKER_TERMINATED)}
    ELSE FALSE
C18_TerminateRejectsAll ==
    /\ [][pool'.terminates # pool.terminates =>
            /\ pool'.taskQueue = <<>>
            /\ \A t \in Range(pool.taskQueue) :
                 pool'.tasks[t].promise = Rejected(POOL_TERMINATED)]_vars
    /\ \A t \in 1..MaxTasks :
         (t \in pool.atTerminate /\ StatusOf(t) = "pending") ~> TerminationError(t)
\* the same, for the first call of terminate only
C18_FirstTerminate ==
    /\ [][pool'.terminates # pool.terminates =>
            /\ pool'.taskQueue = <<>>
            /\ \A t \in Range(pool.taskQueue) :
                 pool'.tasks[t].promise = Rejected(POOL_TERMINATED)]_vars
    /\ \A t \in 1..MaxTasks :
         (t \in pool.atTerminate /\ pool.terminates = 1 /\ StatusOf(t) = "pending")
             ~> (TerminationError(t) \/ pool.terminates > 1)
\* why the task above is pending for good, whatever is called next: no
\* operation of the pool answers or rejects a request handed to a worker
\* that was already terminated
C18_DeadCallStays ==
    [][\A r \in pool.running :
          r.call = "dead" =>
             /\ r \in pool'.running
             /\ pool'.tasks[r.task].promise.status = "pending"]_vars

C18_Witness ==
    /\ pool.terminates = 2
    /\ \E r \in pool.running : r.call = "dead" /\ r.task \in pool.atTerminate
    /\ \E t \in pool.atTerminate : pool.tasks[t].promise = Rejected(WORKER_TERMINATED)

\* C19: prepareModel calls the pool's init at most maxRetries times and
\* stops at the first success; after the k-th failure it waits 2^k seconds
\* (2 s, 4 s, ...) unless that failure was the last allowed one; after
\* maxRetries failures it records status "error" and throws; isReady(modelId)
\* holds only after an init call of a prepareModel for that model succeeded.
ExpectedWaits(n) == [k \in 1..n |-> (2 ^ k) * 1000]
C19_BoundedRetries ==
    /\ [](/\ \A c \in DOMAIN mgr.calls :
               LET C == mgr.calls[c] IN
               /\ C.inits <= C.maxRetries
               /\ C.attempt <= C.maxRetries
               /\ C.inits = C.attempt + (IF C.pc \in {"init", "returned"} THEN 1 ELSE 0)
               /\ C.succeeded <=> C.pc = "returned"
               /\ C.pc = "thrown" <=> C.attempt = C.maxRetries
               /\ C.waits = ExpectedWaits(IF C.attempt < C.maxRetries THEN C.attempt
                                          ELSE IF C.maxRetries = 0 THEN 0
                                          ELSE C.maxRetries - 1)
               /\ C.pc = "backoff" => Len(C.waits) = C.attempt
          /\ \A m \in ModelIds :
               isReady(mgr, m) =>
                   \E c \in DOMAIN mgr.calls :
                       mgr.calls[c].modelId = m /\ mgr.calls[c].succeeded)
    /\ [][\A c \in DOMAIN mgr'.calls :
             /\ mgr'.calls[c].pc = "thrown"
             /\ c \in DOMAIN mgr.calls => mgr.calls[c].pc # "thrown"
             => mgr'.statuses[mgr'.calls[c].modelId] = [progress |-> 0, status |-> "error"]]_vars
C19_Witness ==
    \E c \in DOMAIN mgr.calls :
        /\ mgr.calls[c].maxRetries = DefaultMaxRetries
        /\ mgr.calls[c].pc = "thrown"
        /\ mgr.calls[c].waits = <<2000, 4000>>
        /\ mgr.calls[c].inits = 3
        /\ \E d \in DOMAIN mgr.calls :
             /\ mgr.calls[d].succeeded /\ mgr.calls[d].attempt = 2
             /\ isReady(mgr, mgr.calls[d].modelId)

\* C20: chunk on a document that is entirely one fenced code block longer
\* than 1.5 x chunkSize returns exactly one passage, whose text is the whole
\* block.
OneFencedBlock(text) ==
    /\ Len(text) >= 6
    /\ findCodeBlocks(text) = << <<0, Len(text)>> >>
Oversized(in) == 2 * Len(in.text) > 3 * in.opt.chunkSize
C20_OversizedBlockOnePassage ==
    chunkOut # <<>> /\ OneFencedBlock(chunkIn.text) /\ Oversized(chunkIn)
        => /\ chunkOut.status = "returned"
           /\ Len(chunkOut.chunks) = 1
           /\ chunkOut.chunks[1].text = chunkIn.text
\* what does hold: a block longer than chunkSize but within 1.5 x chunkSize
\* comes back as one passage
C20_ModerateBlockOnePassage ==
    chunkOut # <<>> /\ OneFencedBlock(chunkIn.text) /\ ~Oversized(chunkIn)
        => /\ chunkOut.status = "returned"
           /\ Len(chunkOut.chunks) = 1
           /\ chunkOut.chunks[1].text = chunkIn.text
\* every oversized block makes the call loop
C20_OversizedBlockLoops ==
    chunkOut # <<>> /\ OneFencedBlock(chunkIn.text) /\ Oversized(chunkIn)
        => chunkOut.status = "loops"
C20_Witness ==
    /\ chunkOut # <<>>
    /\ chunkIn.opt = DEFAULT_CHUNKING_OPTIONS
    /\ OneFencedBlock(chunkIn.text) /\ Oversized(chunkIn)
    /\ chunkOut.status = "loops"

\* C21: for a document with a fenced code block no longer than 1.5 x
\* chunkSize, with or without frontmatter and whatever the lines of the
\* block, no passage chunk returns holds part of the block: the block lies
\* wholly inside a passage or outside it.
ChunkReturned == IF chunkOut = <<>> THEN FALSE ELSE chunkOut.status = "returned"
\* the fenced blocks of the document, in offsets of the document
BlocksOf(in) ==
    LET fm == stripFrontmatter(in.opt, in.text)
        bs == findCodeBlocks(fm.content)
    IN {<<bs[k][1] + fm.offset, bs[k][2] + fm.offset>> : k \in DOMAIN bs}
Fits(in, b) == 2 * (b[2] - b[1]) <= 3 * in.opt.chunkSize
Cuts(c, b) ==
    /\ c.offsetStart < b[2] /\ b[1] < c.offsetEnd
    /\ ~(c.offsetStart <= b[1] /\ b[2] <= c.offsetEnd)
C21_NoPartialBlock ==
    ChunkReturned =>
        \A b \in BlocksOf(chunkIn) :
            Fits(chunkIn, b) =>
                \A k \in DOMAIN chunkOut.chunks : ~Cuts(chunkOut.chunks[k], b)
\* the same for documents without frontmatter and without a heading line
C21_PlainDocNoPartialBlock ==
    /\ ChunkReturned
    /\ FrontmatterLength(chunkIn.text) = 0
    /\ NextHeading(chunkIn.text, 0) = -1
    => \A b \in BlocksOf(chunkIn) :
            Fits(chunkIn, b) =>
                \A k \in DOMAIN chunkOut.chunks : ~Cuts(chunkOut.chunks[k], b)
C21_Witness ==
    /\ ChunkReturned
    /\ chunkIn.opt = DEFAULT_CHUNKING_OPTIONS
    /\ FrontmatterLength(chunkIn.text) = 0
    /\ NextHeading(chunkIn.text, 0) = -1
    /\ \E b \in BlocksOf(chunkIn) :
         /\ Fits(chunkIn, b)
         /\ \E k \in DOMAIN chunkOut.chunks :
              /\ chunkOut.chunks[k].offsetStart <= b[1]
              /\ b[2] <= chunkOut.chunks[k].offsetEnd
         /\ \E k \in DOMAIN chunkOut.chunks : Cuts(chunkOut.chunks[k], b)

\* C22: for every passage chunk returns, the slice of the document from
\* offsetStart to offsetEnd is the passage's text, frontmatter included in
\* the offsets.
C22_OffsetRoundTrip ==
    ChunkReturned =>
        \A k \in DOMAIN chunkOut.chunks :
            LET c == chunkOut.chunks[k] IN
            /\ 0 <= c.offsetStart /\ c.offsetStart <= c.offsetEnd
            /\ c.offsetEnd <= Len(chunkIn.text)
            /\ Slice(chunkIn.text, c.offsetStart, c.offsetEnd) = c.text

C22_Witness ==
    /\ ChunkReturned
    /\ FrontmatterLength(chunkIn.text) > 0
    /\ \E k \in DOMAIN chunkOut.chunks :
         Len(chunkOut.chunks[k].text) > chunkIn.opt.chunkSize
    /\ \E k \in DOMAIN chunkOut.chunks :
         /\ k + 1 \in DOMAIN chunkOut.chunks
         /\ chunkOut.chunks[k + 1].offsetStart < chunkOut.chunks[k].offsetEnd
    /\ \E k \in DOMAIN chunkOut.chunks : chunkOut.chunks[k].headings # <<>>

\* C23: the heading path of a section follows outline-stack semantics and
\* keeps each heading's own marker: the slot at depth L holds a heading of
\* level L written with its L hash signs, and the path has no empty slot.
OwnMarker(h, depth) ==
    /\ Len(h) > depth + 1
    /\ SubSeq(h, 1, depth + 1) = Rep("#", depth) \o <<" ">>
C23_HeadingPath ==
    ChunkReturned =>
        \A k \in DOMAIN chunkOut.chunks :
            \A depth \in DOMAIN chunkOut.chunks[k].headings :
                OwnMarker(chunkOut.chunks[k].headings[depth], depth)
\* the path is dense, whatever the markers
C23_DensePath ==
    ChunkReturned =>
        \A k \in DOMAIN chunkOut.chunks :
            \A depth \in DOMAIN chunkOut.chunks[k].headings :
                chunkOut.chunks[k].headings[depth] # <<>>
\* what does hold: every filled slot is written with one hash sign
C23_SingleHashMarker ==
    ChunkReturned =>
        \A k \in DOMAIN chunkOut.chunks :
            \A depth \in DOMAIN chunkOut.chunks[k].headings :
                LET h == chunkOut.chunks[k].headings[depth]
                IN h = <<>> \/ (SubSeq(h, 1, 2) = <<"#", " ">> /\ h[3] # "#")
\* the outline # A, ## B, ### C, ## D: the paths the code stamps
C23_Witness ==
    /\ ChunkReturned
    /\ chunkIn.text = HeadingLine(1, "A") \o HeadingLine(2, "B")
                        \o HeadingLine(3, "C") \o HeadingLine(2, "D")
    /\ Len(chunkOut.chunks) = 4
    /\ chunkOut.chunks[3].headings = << <<"#", " ", "A">>, <<"#", " ", "B">>, <<"#", " ", "C">> >>
    /\ chunkOut.chunks[4].headings = << <<"#", " ", "A">>, <<"#", " ", "D">> >>

\* C24: the N passages of a result of chunk(text, path, title) have the
\* indices 0..N-1 in document order, vectorId is path::index and so unique
\* within the result, and the records the scheduler builds from them carry
\* id = vectorId and chunk_index = that index.
C24_IndicesAndIds ==
    ChunkReturned =>
        LET cs == chunkOut.chunks
            rs == Records(cs, "a.md", 1)
        IN /\ \A k \in DOMAIN cs :
                /\ cs[k].index = k - 1
                /\ cs[k].vectorId = <<"a.md", cs[k].index>>
                /\ k + 1 \in DOMAIN cs => cs[k].offsetStart <= cs[k + 1].offsetStart
           /\ \A j, k \in DOMAIN cs : j # k => cs[j].vectorId # cs[k].vectorId
           /\ Cardinality(rs) = Len(cs)
           /\ \A r \in rs :
                /\ r.idx + 1 \in DOMAIN cs
                /\ r.id = cs[r.idx + 1].vectorId
                /\ r.idx = cs[r.idx + 1].index
C24_Witness ==
    /\ ChunkReturned
    /\ Len(chunkOut.chunks) >= 4
    /\ Cardinality({chunkOut.chunks[k].headings : k \in DOMAIN chunkOut.chunks}) >= 2
    /\ \E k \in DOMAIN chunkOut.chunks :
         /\ k + 1 \in DOMAIN chunkOut.chunks
         /\ chunkOut.chunks[k + 1].offsetStart < chunkOut.chunks[k].offsetEnd

\* C25: for a document of plain text (no heading, no fence, no line break,
\* no sentence punctuation) longer than chunkSize, the sliding window emits
\* passages whose offsetStart grows by chunkSize - floor(chunkSize x overlap)
\* from one to the next, each passage starts before the previous one ends,
\* and 1200 characters under chunkSize 500 and overlap 0.15 give 3 passages.
PlainText(text) == \A i \in DOMAIN text : text[i] = "a"
Stride(opt) == opt.chunkSize - (opt.chunkSize * opt.overlapNum) \div opt.overlapDen
Searchable(T, ix, path) ==
    {r \in OfPath(T, path) : backend = "voy" => Id(r) \in ix}
UpsertFailed ==
    /\ call.kind = "upsert"
    /\ call.stage = "failed"
C26_UpsertAllOrNothing ==
    UpsertFailed =>
        Searchable(recs, voyIndex, call.path)
            \in {Searchable(call.old.recs, call.old.voyIndex, call.path), call.records}
\* On LanceDB a failed upsert leaves the path, which held records, with none
C26_Witness ==
    /\ UpsertFailed
    /\ backend = "lance"
    /\ call.old.recs # {}
    /\ call.records # {}
    /\ OfPath(recs, call.path) = {}
\* On Voy a failed upsert leaves the index without ids the map still holds
C26_VoyWitness ==
    /\ UpsertFailed
    /\ backend = "voy"
    /\ Searchable(recs, voyIndex, call.path) # OfPath(recs, call.path)
    /\ OfPath(recs, call.path) = call.old.recs

\* C27: on either backend a search returns at most topK results, each with
\* a score of at least minScore (the cosine similarity of the stored
\* record), best first; it returns the empty list when no record reaches
\* minScore, when the store is empty and when the adapter holds no table or
\* index.
Searched == call.kind = "search"
C27_SearchBounded ==
    [][(call' # call /\ call'.kind = "search") =>
        LET rs == call'.results
            c == call'
        IN
        /\ c.stage = "done"
        /\ Len(rs) <= c.topK
        /\ \A i \in DOMAIN rs :
             /\ rs[i].score >= c.minScore
             /\ \E r \in recs :
                  /\ Id(r) = rs[i].vectorId
                  /\ rs[i].score = calculateCosineSimilarity(c.vector, VectorOf(r))
        /\ \A i, j \in DOMAIN rs : i < j => rs[i].score >= rs[j].score
        /\ (\A r \in recs :
               calculateCosineSimilarity(c.vector, VectorOf(r)) < c.minScore)
             => rs = <<>>
        /\ ~StoreOpen(plugin) => rs = <<>>]_vars
\* A search on a ready store that holds more than topK records returns topK
\* of them with different scores; one stored record reaches minScore and
\* is not returned, another does not reach it
C27_Witness ==
    /\ Searched
    /\ StoreOpen(plugin)
    /\ Len(call.results) = 2
    /\ call.minScore = 30
    /\ call.results[1].score > call.results[2].score
    /\ Cardinality(recs) > 2
    /\ \E r \in recs : calculateCosineSimilarity(call.vector, VectorOf(r)) < call.minScore
\* A search on a closed LanceDB adapter whose table holds rows
C27_ClosedWitness ==
    /\ Searched
    /\ ~StoreOpen(plugin)
    /\ recs # {}
    /\ call.results = <<>>

\* C28: on either backend no step of delete(path) changes the records of
\* another path, a delete that succeeds leaves no record of the path, and a
\* delete of a path without records changes nothing and, on Voy where no
\* library call is made for it, cannot fail.
IndexOfPath(ix, p) == {id \in ix : id[1] = p}
C28_DeleteFrame ==
    [][(call' # call /\ call'.kind = "delete") =>
        LET c == call' IN
        /\ \A p \in Paths \ {c.path} :
             /\ OfPath(recs', p) = OfPath(recs, p)
             /\ IndexOfPath(voyIndex', p) = IndexOfPath(voyIndex, p)
        /\ c.stage = "done" => StoredIds(recs', voyIndex', c.path) = {}
        /\ c.old.recs = {} =>
             /\ recs' = recs
             /\ voyIndex' = voyIndex
             /\ backend = "voy" => c.stage # "failed"]_vars
\* A delete has succeeded for a path that held records while the other path
\* holds records
C28_Witness ==
    /\ call.kind = "delete"
    /\ call.stage = "done"
    /\ call.old.recs # {}
    /\ OfPath(recs, call.path) = {}
    /\ recs # {}
\* A delete has returned for a path that held no record, the store holding
\* records of the other path
C28_NoRecordWitness ==
    /\ call.kind = "delete"
    /\ call.stage = "done"
    /\ call.old.recs = {}
    /\ recs # {}

\* C29: on desktop, when the LanceDB adapter fails to initialize, the Voy
\* adapter is initialized and, once ready, is the plugin's store; the
\* scheduler and the vault listeners exist only when a store was
\* initialized; and when the Voy adapter fails to initialize the failure
\* leaves onload: nothing after initVectorStore runs.
Started == IF plugin = <<>> THEN FALSE ELSE TRUE
C29_Fallback ==
    Started =>
        /\ (plugin.platform = "desktop" /\ plugin.lance = "failed")
             => /\ plugin.voy # "none"
                /\ plugin.voy \in {"ready", "closed"} => plugin.vectorStore = "voy"
        /\ plugin.voy = "ready" => plugin.vectorStore = "voy" /\ backend = "voy"
        /\ (plugin.indexScheduler \/ plugin.syncService)
             => /\ plugin.vectorStore # "none"
                /\ plugin[plugin.vectorStore] \in {"ready", "closed"}
        /\ plugin.voy = "failed"
             => /\ plugin.pc = "thrown"
                /\ plugin.vectorStore = "none"
                /\ ~plugin.indexScheduler
                /\ ~plugin.syncService
\* On desktop LanceDB failed, Voy became the store, and the scheduler and
\* the listeners were created
C29_Witness ==
    /\ Started
    /\ plugin.platform = "desktop"
    /\ plugin.lance = "failed"
    /\ plugin.voy = "ready"
    /\ plugin.vectorStore = "voy"
    /\ plugin.indexScheduler
    /\ plugin.syncService
\* On desktop both adapters failed and onload threw
C29_ThrownWitness ==
    /\ Started
    /\ plugin.platform = "desktop"
    /\ plugin.lance = "failed"
    /\ plugin.voy = "failed"
    /\ plugin.pc = "thrown"

\* C30: when every store call succeeds, once a path is gone from the vault
\* (deleted, or renamed away), its notification has been handled and the
\* scheduler is idle with an empty queue, the store holds no record of the
\* path, whatever indexing pass of the path was queued or running.
Quiescent ==
    /\ ~isBusy
    /\ queue = <<>>
    /\ ops = {}
    /\ Active(drains) = {}
C30_NoStaleVectors ==
    \A p \in Paths :
        (Quiescent /\ ~exists[p]) => StoredIds(recs, voyIndex, p) = {}
\* The scheduler is idle, nothing is queued or in flight, a path is gone
\* from the vault and the store holds records of it
C30_Witness ==
    /\ Quiescent
    /\ modelReady
    /\ \E p \in Paths : ~exists[p] /\ OfPath(recs, p) # {}

\* C31: chunk returns for every text under every configuration: the cursor
\* of refineSection's loop moves forward on every iteration, also in a
\* section with a fenced block longer than 1.5 x chunkSize, and the passages
\* returned are no more than the characters of the text (one for an empty
\* text).
C31_ChunkTerminates ==
    chunkOut # <<>> =>
        /\ chunkOut.status = "returned"
        /\ Len(chunkOut.chunks) <= Max(1, Len(chunkIn.text))
\* what does hold: a call that returns gives no more passages than the text
\* has characters
C31_ReturnedBounded ==
    ChunkReturned => Len(chunkOut.chunks) <= Max(1, Len(chunkIn.text))
\* what does hold: a text without a fence never makes the call loop
C31_NoFenceTerminates ==
    (chunkOut # <<>> /\ BlocksOf(chunkIn) = {}) => chunkOut.status = "returned"
\* The call loops on a text whose fenced block does not start the text
C31_Witness ==
    /\ chunkOut # <<>>
    /\ chunkOut.status = "loops"
    /\ BlocksOf(chunkIn) # {}
    /\ \A b \in BlocksOf(chunkIn) : b[1] > 0

\* C32: the pool never owns more workers than maxWorkers, whatever init
\* calls were made: overlapping ones, or one repeated after a failed init.
C32_WorkersBounded == Len(pool.workers) <= pool.maxWorkers
\* Two init calls overlap, both still pending, and the pool owns more
\* workers than maxWorkers
C32_Witness ==
    /\ Len(pool.inits) = 2
    /\ \A i \in DOMAIN pool.inits : pool.inits[i].promise.status = "pending"
    /\ pool.terminates = 0
    /\ Len(pool.workers) > pool.maxWorkers
\* An init call failed, init was called again as prepareModel's retry does,
\* and the pool owns the workers of both
C32_RetryWitness ==
    /\ Len(pool.inits) = 2
    /\ pool.inits[1].promise.status = "rejected"
    /\ pool.terminates = 0
    /\ Len(pool.workers) > pool.maxWorkers

\* C33: a terminated worker is never in idleWorkers, not even after the
\* task it had in flight was rejected, and no task is handed to a
\* terminated worker.
C33_NoTerminatedWorkerIdle ==
    /\ \A i \in DOMAIN pool.idleWorkers : pool.clients[pool.idleWorkers[i]].alive
    /\ \A r \in pool.running : r.call # "dead"
\* what does hold: terminate itself leaves idleWorkers empty
C33_TerminateEmptiesIdle ==
    [][pool'.terminates > pool.terminates => pool'.idleWorkers = <<>>]_vars
\* After terminate, a task submitted later was handed to a terminated worker
C33_Witness ==
    /\ Terminated(pool)
    /\ \E r \in pool.running :
          /\ r.call = "dead"
          /\ r.task \notin pool.atTerminate
          /\ ~pool.clients[r.worker].alive
\* After terminate, a terminated worker sits in idleWorkers
C33_IdleWitness ==
    /\ Terminated(pool)
    /\ \E i \in DOMAIN pool.idleWorkers : ~pool.clients[pool.idleWorkers[i]].alive

\* C34: no task is handed to a worker before an init call of the pool has
\* resolved, that is before every worker has loaded the model; a task
\* submitted earlier waits in taskQueue.
C34_NoDispatchBeforeReady ==
    [][pool'.dispatched # pool.dispatched => pool'.isInitialized]_vars
\* what does hold: a task is only handed to a worker whose own loadModel
\* request was answered
C34_DispatchToLoadedWorker ==
    \A r \in pool.running : pool.clients[r.worker].first = "ok"
\* The pool of two workers is not initialized, one worker has yet to load
\* the model, and the other holds a task
C34_Witness ==
    /\ ~pool.isInitialized
    /\ pool.terminates = 0
    /\ pool.maxWorkers = 2
    /\ \E w \in DOMAIN pool.clients :
          pool.clients[w].first = "pending" /\ pool.clients[w].second = "pending"
    /\ \E r \in pool.running : r.call = "sent"

\* C35: every progress signal carries processed <= total, also when the
\* drain that fullSync started is given paths fullSync did not count, and
\* processed grows by one per document.
IsProgress(e) == e.sig = "index:progress"
C35_ProgressWithinTotal ==
    \A i \in DOMAIN emitted :
        IsProgress(emitted[i]) => emitted[i].processed <= emitted[i].total
\* what does hold: the count of a drain grows by one at a time
C35_CountsByOne ==
    [][\A d \in DOMAIN drains :
          drains'[d].processed \in {0, drains[d].processed, drains[d].processed + 1}]_vars
\* A drain started by fullSync with one document has just reported its
\* second
C35_Witness ==
    /\ \E i \in DOMAIN emitted : emitted[i] = INDEX_PROGRESS(2, 1)
    /\ \E d \in DOMAIN drains : drains[d].total = 1 /\ drains[d].processed = 2
\* fullSync ran before the model was ready; the drain that MODEL_READY
\* started has processed a document and reports no progress
C35_SilentWitness ==
    /\ \E d \in DOMAIN drains :
          drains[d].pc = "sleep" /\ drains[d].total = 0 /\ drains[d].processed = 1
    /\ emitted = <<>>

\* C36: for a document that starts with a frontmatter block F followed by
\* B, chunk gives the passages of chunk(B): as many, with the same texts,
\* every offset moved by the length of F and every line number by the lines
\* of F.
HasFrontmatter(in) == stripFrontmatter(in.opt, in.text).offset > 0
\* chunk on the document without its frontmatter
BodyCall(in) == chunkCall(in.opt, stripFrontmatter(in.opt, in.text).content)
Shifted(c, b, fm) ==
    /\ c.text = b.text
    /\ c.offsetStart = b.offsetStart + fm.offset
    /\ c.offsetEnd = b.offsetEnd + fm.offset
    /\ c.lineStart = b.lineStart + fm.lineOffset
    /\ c.lineEnd = b.lineEnd + fm.lineOffset
SameAsBody(in, out) ==
    LET fm == stripFrontmatter(in.opt, in.text)
        body == BodyCall(in)
    IN /\ out.status = body.status
       /\ Len(out.chunks) = Len(body.chunks)
       /\ \A k \in DOMAIN out.chunks :
            k \in DOMAIN body.chunks => Shifted(out.chunks[k], body.chunks[k], fm)
C36_FrontmatterInvariant ==
    (chunkOut # <<>> /\ HasFrontmatter(chunkIn)) => SameAsBody(chunkIn, chunkOut)
\* what does hold: the same for documents without a fence
C36_NoFenceInvariant ==
    (chunkOut # <<>> /\ HasFrontmatter(chunkIn) /\ BlocksOf(chunkIn) = {})
        => SameAsBody(chunkIn, chunkOut)
\* A document with frontmatter and a fenced block: both calls return and
\* the passages are not those of the body
C36_Witness ==
    /\ ChunkReturned
    /\ HasFrontmatter(chunkIn)
    /\ BlocksOf(chunkIn) # {}
    /\ BodyCall(chunkIn).status = "returned"
    /\ ~SameAsBody(chunkIn, chunkOut)

\* The same under the default options
C36_DefaultWitness ==
    /\ C36_Witness
    /\ chunkIn.opt = DEFAULT_CHUNKING_OPTIONS

\* Times of the changed events delivered for path p, and of its emissions
EventTimes(p) == {sync.events[i].at : i \in {j \in DOMAIN sync.events : sync.events[j].path = p}}
ChangedAt(p) ==
    {i \in DOMAIN sync.emits : sync.emits[i].sig = FILE_CHANGED /\ sync.emits[i].path = p}
\* The burst of p that ends with an event at t is over: no event of p
\* followed within the delay, and the delay has passed
BurstEnded(p, t) ==
    /\ t \in EventTimes(p)
    /\ \A u \in EventTimes(p) : ~(t < u /\ u <= t + DebounceMs)
    /\ sync.now > t + DebounceMs

\* C37: SyncService debounces per path. A changed emission for a path comes
\* exactly 500 ms after an event on that path with no event on the path in
\* between, so events less than 500 ms apart yield no emission between them;
\* a burst that has ended has exactly one emission, 500 ms after its last
\* event; each path has at most one timer pending, whatever happens on the
\* other path.
C37_DebouncePerPath ==
    sync # <<>> =>
        \A p \in Paths :
            /\ \A i \in ChangedAt(p) :
                   /\ sync.emits[i].at - DebounceMs \in EventTimes(p)
                   /\ \A u \in EventTimes(p) :
                          ~(sync.emits[i].at - DebounceMs < u /\ u < sync.emits[i].at)
            /\ \A t \in EventTimes(p) :
                   /\ Cardinality({i \in ChangedAt(p) :
                                      sync.emits[i].at = t + DebounceMs}) <= 1
                   /\ BurstEnded(p, t) =>
                          Cardinality({i \in ChangedAt(p) :
                                          sync.emits[i].at = t + DebounceMs}) = 1
            /\ Cardinality({t \in sync.timers : t.path = p}) <= 1
            /\ \A t \in sync.timers :
                   t.path = p => /\ p \in DOMAIN sync.debounceTimers
                                 /\ t.due = sync.debounceTimers[p]

\* A burst of two events on one path, 300 ms apart, has ended with its one
\* emission, and the other path, touched in between, had its own
C37_Witness ==
    /\ sync # <<>>
    /\ \E t, u \in EventTimes("a.md") :
           /\ t < u /\ u < t + DebounceMs
           /\ BurstEnded("a.md", u)
           /\ Cardinality(ChangedAt("a.md")) = 1
    /\ \E v \in EventTimes("b.md") :
           /\ BurstEnded("b.md", v)
           /\ Cardinality(ChangedAt("b.md")) = 1
\* Two bursts on one path, each with its own emission
C37_TwoBurstsWitness ==
    /\ sync # <<>>
    /\ Cardinality(EventTimes("a.md")) = 2
    /\ Cardinality(ChangedAt("a.md")) = 2

=============================================================================
